---- MODULE Spec2Model ----
(***************************************************************************)
(* Model of the ESXi upgrade precheck (precheck.py).                       *)
(*                                                                         *)
(* Part 1: native-driver resolution, SystemProbeESXi._getNativeDevices,    *)
(* as a step-by-step state machine (specification Spec).                   *)
(*                                                                         *)
(* Part 2: a run of an entry point (upgradeAction, installAction,          *)
(* cliUpgradeAction, imageManagerAction, main): init(), the list of tests, *)
(* the Result of each test, what is returned (specification SpecRun).      *)
(*                                                                         *)
(* Part 3: one call of Result(...) on arguments drawn from bounded sets    *)
(* (specification SpecResult).                                             *)
(*                                                                         *)
(* Part 4: functions called on their own, one call each: PciInfo.__eq__    *)
(* and __ne__, ImageMetadata._getTargetImageProfile and _calcImageSize,    *)
(* checkUpgradePath, checkMemorySize, checkBootDiskSize (specification     *)
(* SpecCall).                                                              *)
(*                                                                         *)
(* Strings that the code parses or matches character by character (kernel  *)
(* names, software tags, identity strings, descriptions, adapter uids) are *)
(* sequences of one-character strings.  Strings that are only compared     *)
(* for equality as a whole (driver names) are TLA+ strings.                *)
(***************************************************************************)
EXTENDS Integers, Sequences, FiniteSets, TLC

\* ------------------------------------------------------------------------
\* Bounds of the model
\* ------------------------------------------------------------------------

\* units (VIBs) in the target image profile
MaxVibs == 1

\* rows of 'hardware pci list'
MaxPci == 2

\* rows of 'storage core adapter list'
MaxAdapters == 2

\* ------------------------------------------------------------------------
\* Characters and formatting
\* ------------------------------------------------------------------------

Digits == {"0", "1", "2", "3", "4", "5", "6", "7", "8", "9"}

NonZeroDigits == Digits \ {"0"}

LowerAF == {"a", "b", "c", "d", "e", "f"}

UpperAF == {"A", "B", "C", "D", "E", "F"}

LowerAZ ==
  LowerAF \cup {"g", "h", "i", "j", "k", "l", "m", "n", "o", "p", "q", "r",
                "s", "t", "u", "v", "w", "x", "y", "z"}

\* \s of the re module, as far as the modelled tags use it
WhiteSpace == {" "}

HexChars ==
  <<"0", "1", "2", "3", "4", "5", "6", "7", "8", "9",
    "a", "b", "c", "d", "e", "f">>

RECURSIVE HexStr(_)
\* lowercase hexadecimal digits of a natural number, no padding
HexStr(n) ==
  IF n < 16 THEN <<HexChars[n + 1]>>
  ELSE HexStr(n \div 16) \o <<HexChars[(n % 16) + 1]>>

RECURSIVE ZeroPad(_, _)
\* pad on the left with "0" up to width w; longer strings are kept whole
ZeroPad(s, w) == IF Len(s) >= w THEN s ELSE ZeroPad(<<"0">> \o s, w)

\* '%04x' % n
Fmt04x(n) == ZeroPad(HexStr(n), 4)

\* '%02x' % n
Fmt02x(n) == ZeroPad(HexStr(n), 2)

RECURSIVE LeadFrom(_, _, _)
\* the last position of the run of elements of S that starts at position k
LeadFrom(s, S, k) ==
  IF k > Len(s) \/ s[k] \notin S THEN k - 1 ELSE LeadFrom(s, S, k + 1)

\* number of leading elements of s that lie in the set S
LeadLen(s, S) == LeadFrom(s, S, 1)

\* s begins with p
StartsWith(s, p) == Len(s) >= Len(p) /\ SubSeq(s, 1, Len(p)) = p

\* s without its first n elements
Drop(s, n) == SubSeq(s, n + 1, Len(s))

\* ------------------------------------------------------------------------
\* Regular expressions of _getNativeDevices
\* ------------------------------------------------------------------------

\* [0-9a-z.] of pciTagRegex
TagChars == Digits \cup LowerAZ \cup {"."}

\* [0-9A-Fa-f:.] of sbdfRegex
SbdfChars == Digits \cup LowerAF \cup UpperAF \cup {":", "."}

NoMatch == <<"<no match>">>

PCIID == <<"P", "C", "I", "I", "D">>

\* pciTagRegex.match(tag): PCIID\s+(?P<id>[0-9a-z.]*)\s*\Z anchored at the
\* start.  The three classes are disjoint, so each greedy run is the only
\* possible one.  Gives group 'id', or NoMatch.
PciTagId(tag) ==
  IF ~StartsWith(tag, PCIID) THEN NoMatch
  ELSE LET rest == Drop(tag, Len(PCIID))
           ws   == LeadLen(rest, WhiteSpace)
           body == Drop(rest, ws)
           n    == LeadLen(body, TagChars)
           tail == Drop(body, n)
       IN IF ws >= 1 /\ LeadLen(tail, WhiteSpace) = Len(tail)
          THEN SubSeq(body, 1, n)
          ELSE NoMatch

vmhba == <<"v", "m", "h", "b", "a">>

vmnic == <<"v", "m", "n", "i", "c">>

\* deviceNames.match(name): (vmhba|vmnic)(0|([1-9][0-9]*))\Z
DeviceNamesMatch(name) ==
  /\ StartsWith(name, vmhba) \/ StartsWith(name, vmnic)
  /\ LET num == Drop(name, 5)
     IN \/ num = <<"0">>
        \/ /\ Len(num) >= 1
           /\ num[1] \in NonZeroDigits
           /\ \A k \in 2..Len(num) : num[k] \in Digits

\* sbdfRegex.match(description): \((?P<sbdf>[0-9A-Fa-f:.]+)\) anchored at the
\* start.  Gives group 'sbdf', or NoMatch.
SbdfOf(description) ==
  IF Len(description) = 0 \/ description[1] # "(" THEN NoMatch
  ELSE LET rest == Drop(description, 1)
           n    == LeadLen(rest, SbdfChars)
       IN IF n >= 1 /\ Len(rest) > n /\ rest[n + 1] = ")"
          THEN SubSeq(rest, 1, n)
          ELSE NoMatch

\* mutant of UsbMatch: the pattern has to match the whole uid
UsbMatchWholeUid(uid) == uid = <<"u", "s", "b", ".">>

\* usbRegex.match(uid): usb\. anchored at the start
UsbMatch(uid) == StartsWith(uid, <<"u", "s", "b", ".">>)

\* re.match(driverTag, hwId) for a driverTag over [0-9a-z.]: the tag is a
\* pattern in which only "." is special (any character); match anchors the
\* pattern at the start of hwId and not at its end.
ReMatchTag(driverTag, hwId) ==
  /\ Len(driverTag) <= Len(hwId)
  /\ \A k \in 1..Len(driverTag) :
        driverTag[k] = "." \/ driverTag[k] = hwId[k]

\* ------------------------------------------------------------------------
\* Constants of precheck.py
\* ------------------------------------------------------------------------

\* mutant of NATIVE_PCI_CLASS_DRIVER: the NVMe class is missing
NativeClassAhciOnly == { <<"0", "1", "0", "6", "0", "1">> }

\* PCI classes that have native class drivers: '010601' AHCI, '010802' NVMe
NATIVE_PCI_CLASS_DRIVER ==
  { <<"0", "1", "0", "6", "0", "1">>, <<"0", "1", "0", "8", "0", "2">> }

\* software storage adapters, treated as having native drivers
SOFTWARE_ADAPTER == {"iscsi_vmk", "qfle3f"}

\* classCode = '%04x%02x' % (pciClass, pgmIf)
ClassCode(device) == Fmt04x(device.devClass) \o Fmt02x(device.pgmIf)

\* hwId = '%04x%04x%04x%04x%s' % (vendId, devId, subVendId, subDevId, classCode)
HwId(device) ==
  Fmt04x(device.vendId) \o Fmt04x(device.devId) \o Fmt04x(device.subVendId)
    \o Fmt04x(device.subDevId) \o ClassCode(device)

\* ------------------------------------------------------------------------
\* Inputs: target image profiles and host inventories
\* ------------------------------------------------------------------------

Sp == <<" ">>

Dots(n) == [k \in 1..n |-> "."]

\* 14e4 1639 103c 7055 020000: the identity of the NIC below, written out
TagNicExact ==
  <<"1", "4", "e", "4", "1", "6", "3", "9", "1", "0", "3", "c",
    "7", "0", "5", "5", "0", "2", "0", "0", "0", "0">>

\* the same with the sub-vendor and sub-device positions wild
TagNicWild ==
  <<"1", "4", "e", "4", "1", "6", "3", "9">> \o Dots(8)
    \o <<"0", "2", "0", "0", "0", "0">>

\* vendor, device and subsystem wild: the whole class 0104, interface 00
TagRaidClass == Dots(16) \o <<"0", "1", "0", "4", "0", "0">>

\* shorter than an identity string: a vendor id alone
TagShort == <<"1", "4", "e", "4">>

\* longer than an identity string
TagLong == TagNicExact \o <<"0">>

\* full width, matching no device of the inventories
TagOther == <<"8", "0", "8", "6", "1", "0", "d", "3">> \o Dots(14)

\* the 'swtags' of the units; a unit may carry tags that are no PCIID tags
VibUniverse ==
  { [id |-> "nic-exact", hasSwtags |-> TRUE,
     swtags |-> << <<"d", "r", "i", "v", "e", "r">>,
                   PCIID \o Sp \o TagNicExact >>],
    [id |-> "nic-wild", hasSwtags |-> TRUE,
     swtags |-> << PCIID \o Sp \o Sp \o TagNicWild \o Sp >>],
    [id |-> "raid-class", hasSwtags |-> TRUE,
     swtags |-> << PCIID \o Sp \o TagRaidClass, PCIID \o Sp \o TagOther >>],
    [id |-> "short", hasSwtags |-> TRUE,
     swtags |-> << PCIID \o Sp \o TagShort >>],
    [id |-> "misc", hasSwtags |-> TRUE,
     swtags |-> << PCIID \o Sp \o TagLong,
                   PCIID \o TagNicExact,
                   PCIID \o Sp \o <<"1", "4", "E", "4">> >>],
    [id |-> "no-tags", hasSwtags |-> FALSE, swtags |-> << >>] }

\* a profile is its set of units (vibs.values())
ProfileUniverse == { P \in SUBSET VibUniverse : Cardinality(P) <= MaxVibs }

AddrA == <<"0", ":", "a">>

AddrB == <<"0", ":", "b">>

AddrC == <<"1", ":", "0">>

Name(prefix, num) == prefix \o num

\* rows of 'hardware pci list'; ids are numbers as the command reports them
DevAhci ==
  [name |-> Name(vmhba, <<"0">>), address |-> AddrA, vendId |-> 32902,
   devId |-> 10530, subVendId |-> 32902, subDevId |-> 10530,
   devClass |-> 262, pgmIf |-> 1]

\* the same controller in a mode whose interface is not AHCI: 010600
DevSata ==
  [name |-> Name(vmhba, <<"0">>), address |-> AddrA, vendId |-> 32902,
   devId |-> 10528, subVendId |-> 32902, subDevId |-> 10528,
   devClass |-> 262, pgmIf |-> 0]

DevNvme ==
  [name |-> Name(vmhba, <<"1">>), address |-> AddrB, vendId |-> 5197,
   devId |-> 43016, subVendId |-> 5197, subDevId |-> 43009,
   devClass |-> 264, pgmIf |-> 2]

DevRaid ==
  [name |-> Name(vmhba, <<"1", "0">>), address |-> AddrB, vendId |-> 4096,
   devId |-> 93, subVendId |-> 4096, subDevId |-> 37729,
   devClass |-> 260, pgmIf |-> 0]

DevNic ==
  [name |-> Name(vmnic, <<"0">>), address |-> AddrC, vendId |-> 5348,
   devId |-> 5689, subVendId |-> 4156, subDevId |-> 28757,
   devClass |-> 512, pgmIf |-> 0]

\* an AHCI-class function the vmkernel gave no vmhba/vmnic alias
DevNoAlias ==
  [name |-> << >>, address |-> AddrC, vendId |-> 32902,
   devId |-> 10530, subVendId |-> 32902, subDevId |-> 10530,
   devClass |-> 262, pgmIf |-> 1]

\* the rows in the order the command lists them: by bus address
PciUniverse == <<DevAhci, DevSata, DevNvme, DevRaid, DevNic, DevNoAlias>>

\* the rows of list at the positions in S, in the order of list
Pick(list, S) ==
  LET f[k \in 0..Len(list)] ==
        IF k = 0 THEN << >>
        ELSE IF k \in S THEN Append(f[k - 1], list[k]) ELSE f[k - 1]
  IN f[Len(list)]

\* Inventories the platform can report: rows in address order, every PCI
\* function listed once, so addresses are distinct, and so are the names.
PciInventories ==
  { l \in { Pick(PciUniverse, S) :
              S \in { T \in SUBSET (1..Len(PciUniverse)) :
                        Cardinality(T) <= MaxPci } } :
      \A a, b \in 1..Len(l) :
         a # b => /\ l[a].address # l[b].address
                  /\ l[a].name # l[b].name }

Descr(addr) == <<"(">> \o addr \o <<")", " ", "x">>

AdUsb ==
  [name |-> Name(vmhba, <<"3", "2">>), uid |-> <<"u", "s", "b", ".", "1">>,
   driver |-> "vmkusb", description |-> <<"(", ")", " ", "U", "S", "B">>]

AdIscsi ==
  [name |-> Name(vmhba, <<"6", "4">>), uid |-> <<"i", "q", "n", ".", "1">>,
   driver |-> "iscsi_vmk", description |-> <<"i", "S", "C", "S", "I">>]

\* a port adapter of the storage controller at AddrA
AdChild ==
  [name |-> Name(vmhba, <<"3", "3">>), uid |-> <<"s", "a", "t", "a", ".", "1">>,
   driver |-> "vmw_ahci", description |-> Descr(AddrA)]

\* an FCoE adapter of a legacy bridging driver on top of the NIC at AddrC
AdCna ==
  [name |-> Name(vmhba, <<"3", "4">>), uid |-> <<"f", "c", ".", "2">>,
   driver |-> "bnx2fc", description |-> Descr(AddrC)]

\* the address is not at the start of the description; 'usb.' is not at the
\* start of the uid
AdOdd ==
  [name |-> Name(vmhba, <<"3", "5">>), uid |-> <<"x", "u", "s", "b", ".">>,
   driver |-> "vmkata", description |-> Sp \o Descr(AddrB)]

\* the storage adapter that a vmhba PCI function is: it has the function's
\* own name and its description begins with the function's own address
AdSelf(device) ==
  [name |-> device.name, uid |-> <<"p", "c", "i", ".", "0">>,
   driver |-> "hba", description |-> Descr(device.address)]

\* the rows in the order the command lists them, by adapter name: the
\* adapters that are PCI functions (vmhba0, vmhba1, ...), then the others
AdapterUniverse(pci) ==
  Pick([k \in 1..Len(pci) |-> AdSelf(pci[k])],
       { k \in 1..Len(pci) : StartsWith(pci[k].name, vmhba) })
    \o <<AdUsb, AdChild, AdCna, AdOdd, AdIscsi>>

\* adapter lists the platform can report for a host with PCI inventory pci:
\* each adapter listed once; an adapter that is a PCI function is described
\* by that function's own address
AdapterInventories(pci) ==
  { Pick(AdapterUniverse(pci), S) :
      S \in { T \in SUBSET (1..Len(AdapterUniverse(pci))) :
                Cardinality(T) <= MaxAdapters } }

\* ------------------------------------------------------------------------
\* State
\* ------------------------------------------------------------------------

VARIABLES
  targetImageProfile,  \* the units of systemProbe.targetImageProfile
  pciInventory,        \* what 'hardware pci list' reports when it succeeds
  adapterInventory,    \* what 'storage core adapter list' reports likewise
  pc,                  \* position in _getNativeDevices
  pciDriverTags,       \* ids of the PCIID tags read so far
  pciDevList,
  pciFailed,           \* runLocalcli(cmd) raised
  i,                   \* position of the loop over pciDevList
  nativeSbdfIndex,     \* dict: bus address -> device name
  nativeDevices,       \* set of device names
  adapterList,
  adapterFailed,       \* run(cmd) or json.loads raised
  j                    \* position of the loops over adapterList

\* state of a precheck run (Part 2)
VARIABLES
  entry,               \* the entry point that was called, with its arguments
  host,                \* what the host answers when the checks probe it
  runPc,               \* position in the entry point
  systemProbe,         \* the module global set by init()
  ramDisk,             \* the directory RAMDISK_NAME exists
  tests,               \* the list of checks the entry point built
  next,                \* position in tests
  results,             \* the Results returned so far
  rc,                  \* the Result a check holds after constructing it
  assigned,            \* attribute stores on a Result outside __init__
  output,              \* what the entry point returns or prints
  args                 \* arguments of one call of Result(...) (Part 3)

\* the variables of native-driver resolution
resolverVars ==
  <<targetImageProfile, pciInventory, adapterInventory, pc, pciDriverTags,
    pciDevList, pciFailed, i, nativeSbdfIndex, nativeDevices, adapterList,
    adapterFailed, j>>

\* the variables of a precheck run, nativeDevices apart
runVars ==
  <<entry, host, runPc, systemProbe, ramDisk, tests, next, results, rc,
    assigned, output, args>>

\* one call of a function of the module on its own (Part 4)
VARIABLES
  call,                \* the function called and its arguments
  returned,            \* the call has returned
  value                \* what it returned

callVars == <<call, returned, value>>

vars == <<resolverVars, runVars, callVars>>

NoCall == [fn |-> "None"]

\* no function is being called on its own
CallIdle ==
  /\ call = NoCall
  /\ returned = FALSE
  /\ value = FALSE

inputs == <<targetImageProfile, pciInventory, adapterInventory>>

\* ------------------------------------------------------------------------
\* class Result
\* ------------------------------------------------------------------------

ERROR == "ERROR"

WARNING == "WARNING"

SUCCESS == "SUCCESS"

\* Python's None where a string is expected
None == "None"

\* lexicographic order of Python lists of numbers: a < b
ListLt(a, b) ==
  LET n    == IF Len(a) < Len(b) THEN Len(a) ELSE Len(b)
      diff == { k \in 1..n : a[k] # b[k] }
  IN IF diff = {} THEN Len(a) < Len(b)
     ELSE LET d == CHOOSE k \in diff : \A m \in diff : k <= m
          IN a[d] < b[d]

\* operator.ge on lists: a >= b
ListGe(a, b) == ~ListLt(a, b)

\* mutant of memorySizeComparator: no allowance below the expected size
memorySizeComparatorExact(found, expected) == found[1] >= expected[1]

\* memorySizeComparator: found[0] >= expected[0] - 0.03125 * expected[0];
\* 0.03125 is 1/32, so the comparison is exact in integers
memorySizeComparator(found, expected) == 32 * found[1] >= 31 * expected[1]

\* mutant of upgradePathComparator: no lowest version to upgrade from
upgradePathComparatorNoBaseline(newVersion, installedVersion) ==
  IF installedVersion = << >> THEN FALSE
  ELSE IF ListLt(newVersion, installedVersion) THEN FALSE
  ELSE TRUE

\* upgradePathComparator(newVersion, installedVersion)
upgradePathComparator(newVersion, installedVersion) ==
  IF installedVersion = << >> THEN FALSE
  ELSE IF ListLt(newVersion, installedVersion) THEN FALSE
  ELSE IF ListLt(installedVersion, <<6, 5>>) THEN FALSE
  ELSE TRUE

\* mutant of bootDiskSizeComparator: no allowance of one MiB
bootDiskSizeComparatorExact(fnd, exp) == fnd[1] >= exp[1]

\* the lambda of checkBootDiskSize: fnd[0] + 1 >= exp[0]
bootDiskSizeComparator(fnd, exp) == fnd[1] + 1 >= exp[1]

\* the default of the parameter 'comparator'
DefaultComparator == "operator.eq"

\* comparator(self.found, self.expected) for the comparators the module uses
Compare(comparator, found, expected) ==
  CASE comparator = "operator.eq" -> found = expected
    [] comparator = "operator.ge" -> ListGe(found, expected)
    [] comparator = "memorySizeComparator" ->
         memorySizeComparator(found, expected)
    [] comparator = "upgradePathComparator" ->
         upgradePathComparator(found, expected)
    [] comparator = "bootDiskSizeComparator" ->
         bootDiskSizeComparator(found, expected)

\* mutant of MismatchOrDefault: the default is WARNING
MismatchOrWarning(mismatchCode) ==
  IF mismatchCode \in {None, ""} THEN WARNING ELSE mismatchCode

\* 'if not mismatchCode: mismatchCode = Result.ERROR'; None and the empty
\* string are the false values among the arguments
MismatchOrDefault(mismatchCode) ==
  IF mismatchCode \in {None, ""} THEN ERROR ELSE mismatchCode

\* Result.__init__
Result(name, found, expected, comparator, errorMsg, mismatchCode) ==
  [name     |-> name,
   found    |-> found,
   expected |-> expected,
   errorMsg |-> errorMsg,
   code     |-> IF Compare(comparator, found, expected)
                THEN SUCCESS
                ELSE MismatchOrDefault(mismatchCode)]

\* Result.__bool__
Truth(result) == result.code = SUCCESS

\* no Result object
NoResult ==
  [name |-> None, found |-> << >>, expected |-> << >>, errorMsg |-> "",
   code |-> None]

\* systemProbe = None
NoProbe ==
  [environment |-> None, bootDeviceName |-> None, imageMetadata |-> FALSE,
   upgradeImageProfile |-> None]

NoOutput == [errors |-> << >>, warnings |-> << >>, xml |-> << >>]

NoEntry ==
  [action |-> None, forceMigrate |-> FALSE, targetImageProfile |-> FALSE,
   vmkLinuxOnly |-> FALSE]

NoArgs ==
  [name |-> None, found |-> << >>, expected |-> << >>, comparator |-> None,
   errorMsg |-> "", mismatchCode |-> None]

\* no Result is being constructed on its own
ArgsIdle == args = NoArgs

\* no entry point is running
RunIdle ==
  /\ entry = NoEntry
  /\ host = << >>
  /\ runPc = "idle"
  /\ systemProbe = NoProbe
  /\ ramDisk = FALSE
  /\ tests = << >>
  /\ next = 1
  /\ results = << >>
  /\ rc = NoResult
  /\ assigned = {}
  /\ output = NoOutput
  /\ ArgsIdle

\* _getNativeDevices is not running
ResolverIdle ==
  /\ targetImageProfile = {}
  /\ pciInventory = << >>
  /\ adapterInventory = << >>
  /\ pc = "done"
  /\ pciDriverTags = {}
  /\ pciDevList = << >>
  /\ pciFailed = FALSE
  /\ i = 1
  /\ nativeSbdfIndex = [a \in {} |-> << >>]
  /\ adapterList = << >>
  /\ adapterFailed = FALSE
  /\ j = 1

\* ------------------------------------------------------------------------
\* Steps of _getNativeDevices, as functions of the local state
\* ------------------------------------------------------------------------

EmptyIndex == [a \in {} |-> << >>]

\* nativeSbdfIndex[sbdfAddress] = name
IndexPut(index, sbdfAddress, name) ==
  [a \in (DOMAIN index) \cup {sbdfAddress} |->
     IF a = sbdfAddress THEN name ELSE index[a]]

\* the loop over targetImageProfile.vibs.values(): the ids of all swtags that
\* pciTagRegex matches.  The list is only ever iterated for a match, so its
\* order and repetitions are not kept.
TagsOfProfile(profile) ==
  UNION { { PciTagId(vib.swtags[k]) : k \in 1..Len(vib.swtags) } :
            vib \in { v \in profile : v.hasSwtags } }
    \ {NoMatch}

\* mutant of SomeTagMatches: every tag has to match
EveryTagMatches(tags, hwId) ==
  tags # {} /\ \A driverTag \in tags : ReMatchTag(driverTag, hwId)

\* the loop over pciDriverTags: some tag matches hwId
SomeTagMatches(tags, hwId) == \E driverTag \in tags : ReMatchTag(driverTag, hwId)

\* classCode in NATIVE_PCI_CLASS_DRIVER
HasNativeClassDriver(classCode) == classCode \in NATIVE_PCI_CLASS_DRIVER

\* mutant of PciRowIndex: every vmhba/vmnic row goes into the index
PciRowIndexAnyClass(index, device) ==
  IF DeviceNamesMatch(device.name)
  THEN IndexPut(index, device.address, device.name)
  ELSE index

\* the index after the body of the loop over pciDevList has run for device;
\* only the native-class branch writes the index
PciRowIndex(index, device) ==
  IF DeviceNamesMatch(device.name) /\ HasNativeClassDriver(ClassCode(device))
  THEN IndexPut(index, device.address, device.name)
  ELSE index

\* the native set after the body of the loop over pciDevList has run for device
PciRowNative(native, tags, device) ==
  IF ~DeviceNamesMatch(device.name) THEN native
  ELSE IF HasNativeClassDriver(ClassCode(device))
       THEN native \cup {device.name}
       ELSE IF SomeTagMatches(tags, HwId(device))
            THEN native \cup {device.name}
            ELSE native

\* mutant of PciLoopDone: the loop stops after its first row
PciLoopDoneAfterFirst(pos, list) == pos > Len(list) \/ pos > 1

\* for device in pciDevList: the loop has no more rows
PciLoopDone(pos, list) == pos > Len(list)

\* mutant of PciListRetrieved: the list is not emptied on failure
PciListKeptOnFailure(ok, inventory) == inventory

\* pciDevList after the try block: [] unless runLocalcli returned
PciListRetrieved(ok, inventory) == IF ok THEN inventory ELSE << >>

\* adapterList after the try block: [] unless run and json.loads returned
AdapterListRetrieved(ok, inventory) == IF ok THEN inventory ELSE << >>

\* where control goes after the retrieval of the PCI list: the except clause
\* logs and falls through
AfterPciRetrieval(ok) == "pciloop"

\* where control goes after the retrieval of the adapter list: the except
\* clause logs and falls through to 'if adapterList:'
AfterAdapterRetrieval(ok, list) == IF list # << >> THEN "indexloop" ELSE "done"

\* first loop over adapterList: the address in the description of an adapter
\* that is already native goes into the index
IndexRow(index, native, adapter) ==
  LET sbdfAddress == SbdfOf(adapter.description)
  IN IF sbdfAddress # NoMatch /\ adapter.name \in native
     THEN IndexPut(index, sbdfAddress, adapter.name)
     ELSE index

\* mutant of InheritsFromBase: the index is not consulted
InheritsWithoutIndex(index, description) == SbdfOf(description) # NoMatch

\* case 3: the description carries an address and the index has it
InheritsFromBase(index, description) ==
  LET sbdfAddress == SbdfOf(description)
  IN sbdfAddress # NoMatch /\ sbdfAddress \in DOMAIN index

\* second loop over adapterList: the native set after the body has run
AdapterRowNative(native, index, adapter) ==
  IF UsbMatch(adapter.uid) THEN native \cup {adapter.name}
  ELSE IF adapter.driver \in SOFTWARE_ADAPTER THEN native \cup {adapter.name}
  ELSE IF adapter.name \notin native
          /\ InheritsFromBase(index, adapter.description)
       THEN native \cup {adapter.name}
       ELSE native

\* ------------------------------------------------------------------------
\* _getNativeDevices as a state machine
\* ------------------------------------------------------------------------

Init ==
  /\ targetImageProfile \in ProfileUniverse
  /\ pciInventory \in PciInventories
  /\ adapterInventory \in AdapterInventories(pciInventory)
  /\ pc = "tags"
  /\ pciDriverTags = {}
  /\ pciDevList = << >>
  /\ pciFailed = FALSE
  /\ i = 1
  /\ nativeSbdfIndex = EmptyIndex
  /\ nativeDevices = {}
  /\ adapterList = << >>
  /\ adapterFailed = FALSE
  /\ j = 1
  /\ RunIdle
  /\ CallIdle

\* lines 1112-1120
ReadTags ==
  /\ pc = "tags"
  /\ pciDriverTags' = TagsOfProfile(targetImageProfile)
  /\ pc' = "getpci"
  /\ UNCHANGED <<callVars, runVars, inputs, pciDevList, pciFailed, i, nativeSbdfIndex,
                 nativeDevices, adapterList, adapterFailed, j>>

\* lines 1129-1140: the command succeeds or raises
GetPciList ==
  /\ pc = "getpci"
  /\ \E ok \in BOOLEAN :
        /\ pciDevList' = PciListRetrieved(ok, pciInventory)
        /\ pciFailed' = ~ok
        /\ pc' = AfterPciRetrieval(ok)
  /\ nativeSbdfIndex' = EmptyIndex
  /\ i' = 1
  /\ UNCHANGED <<callVars, runVars, inputs, pciDriverTags, nativeDevices, adapterList,
                 adapterFailed, j>>

\* lines 1141-1178: one row of pciDevList
PciRow ==
  /\ pc = "pciloop"
  /\ ~PciLoopDone(i, pciDevList)
  /\ nativeDevices' = PciRowNative(nativeDevices, pciDriverTags, pciDevList[i])
  /\ nativeSbdfIndex' = PciRowIndex(nativeSbdfIndex, pciDevList[i])
  /\ i' = i + 1
  /\ UNCHANGED <<callVars, runVars, inputs, pc, pciDriverTags, pciDevList, pciFailed,
                 adapterList, adapterFailed, j>>

\* the loop over pciDevList is exhausted
PciLoopEnd ==
  /\ pc = "pciloop"
  /\ PciLoopDone(i, pciDevList)
  /\ pc' = "getadapters"
  /\ UNCHANGED <<callVars, runVars, inputs, pciDriverTags, pciDevList, pciFailed, i,
                 nativeSbdfIndex, nativeDevices, adapterList, adapterFailed, j>>

\* lines 1194-1204: the command succeeds or raises; 'if adapterList:'
GetAdapterList ==
  /\ pc = "getadapters"
  /\ \E ok \in BOOLEAN :
        /\ adapterList' = AdapterListRetrieved(ok, adapterInventory)
        /\ adapterFailed' = ~ok
        /\ pc' = AfterAdapterRetrieval(ok, adapterList')
  /\ j' = 1
  /\ UNCHANGED <<callVars, runVars, inputs, pciDriverTags, pciDevList, pciFailed, i,
                 nativeSbdfIndex, nativeDevices>>

\* lines 1205-1215: one row of the first loop over adapterList
IndexLoopRow ==
  /\ pc = "indexloop"
  /\ j <= Len(adapterList)
  /\ nativeSbdfIndex' = IndexRow(nativeSbdfIndex, nativeDevices, adapterList[j])
  /\ j' = j + 1
  /\ UNCHANGED <<callVars, runVars, inputs, pc, pciDriverTags, pciDevList, pciFailed, i,
                 nativeDevices, adapterList, adapterFailed>>

\* the first loop is exhausted; the second starts
IndexLoopEnd ==
  /\ pc = "indexloop"
  /\ j > Len(adapterList)
  /\ pc' = "adapterloop"
  /\ j' = 1
  /\ UNCHANGED <<callVars, runVars, inputs, pciDriverTags, pciDevList, pciFailed, i,
                 nativeSbdfIndex, nativeDevices, adapterList, adapterFailed>>

\* lines 1221-1260: one row of the second loop over adapterList
AdapterRow ==
  /\ pc = "adapterloop"
  /\ j <= Len(adapterList)
  /\ nativeDevices' = AdapterRowNative(nativeDevices, nativeSbdfIndex,
                                       adapterList[j])
  /\ j' = j + 1
  /\ UNCHANGED <<callVars, runVars, inputs, pc, pciDriverTags, pciDevList, pciFailed, i,
                 nativeSbdfIndex, adapterList, adapterFailed>>

\* lines 1261-1262: return nativeDevices
AdapterLoopEnd ==
  /\ pc = "adapterloop"
  /\ j > Len(adapterList)
  /\ pc' = "done"
  /\ UNCHANGED <<callVars, runVars, inputs, pciDriverTags, pciDevList, pciFailed, i,
                 nativeSbdfIndex, nativeDevices, adapterList, adapterFailed, j>>

Next ==
  \/ ReadTags
  \/ GetPciList
  \/ PciRow
  \/ PciLoopEnd
  \/ GetAdapterList
  \/ IndexLoopRow
  \/ IndexLoopEnd
  \/ AdapterRow
  \/ AdapterLoopEnd

Spec == Init /\ [][Next]_vars

\* isDeviceNativePostUpgrade(deviceName), once the probe is constructed
isDeviceNativePostUpgrade(deviceName) == deviceName \in nativeDevices

TypeOK ==
  /\ pc \in {"tags", "getpci", "pciloop", "getadapters", "indexloop",
             "adapterloop", "done"}
  /\ nativeDevices \subseteq
       { pciInventory[k].name : k \in 1..Len(pciInventory) }
         \cup { adapterInventory[k].name : k \in 1..Len(adapterInventory) }

\* ------------------------------------------------------------------------
\* _getNativeDevices as a function of its inputs
\* ------------------------------------------------------------------------

\* the loop over pciDevList, run to its end
PciLoop(tags, list) ==
  LET f[k \in 0..Len(list)] ==
        IF k = 0 THEN [native |-> {}, index |-> EmptyIndex]
        ELSE [native |-> PciRowNative(f[k - 1].native, tags, list[k]),
              index  |-> PciRowIndex(f[k - 1].index, list[k])]
  IN f[Len(list)]

\* the first loop over adapterList, run to its end
IndexLoop(index, native, list) ==
  LET f[k \in 0..Len(list)] ==
        IF k = 0 THEN index ELSE IndexRow(f[k - 1], native, list[k])
  IN f[Len(list)]

\* the second loop over adapterList, run to its end
AdapterLoop(native, index, list) ==
  LET f[k \in 0..Len(list)] ==
        IF k = 0 THEN native ELSE AdapterRowNative(f[k - 1], index, list[k])
  IN f[Len(list)]

\* the set _getNativeDevices returns for a profile and the two lists that the
\* commands gave ([] for a command that failed)
GetNativeDevices(profile, pciList, adapters) ==
  LET afterPci == PciLoop(TagsOfProfile(profile), pciList)
      index    == IndexLoop(afterPci.index, afterPci.native, adapters)
  IN AdapterLoop(afterPci.native, index, adapters)

\* the state machine returns what the function gives
ReturnsGetNativeDevices ==
  pc = "done" =>
    nativeDevices = GetNativeDevices(targetImageProfile, pciDevList, adapterList)

\* ------------------------------------------------------------------------
\* Part 2: a precheck run.  What the host answers to the probes
\* ------------------------------------------------------------------------

\* hosts differ from BaseHost in at most this many answers
MaxDeviations == 1

\* numbers of Result(...) calls checked on their own (Part 3): length of the
\* lists found and expected, and the largest element
MaxLen == 2

MaxValue == 1

\* weasel.consts.PRODUCT_VERSION_NUMBER of this release, as list(map(int, .))
PRODUCT_VERSION_NUMBER == <<7, 0, 0>>

\* ImageProfile.AcceptanceChecker.TRUST_ORDER of esximage
TRUST_ORDER ==
  [community |-> 0, partner |-> 1, accepted |-> 2, certified |-> 3]

VibById(id) == CHOOSE vib \in VibUniverse : vib.id = id

\* _getDiskAdapterName returned None
NoAdapter == <<"None">>

\* the answers of a host on which every check passes.  Sizes are in MiB.
BaseHost ==
  [productInfo        |-> "ok",
   installedVersion   |-> <<6, 7, 0>>,
   esxConf            |-> "present",
   systemUuid         |-> "uuid",
   bootDeviceName     |-> "mpx.vmhba0:C0:T0:L0",
   ramDiskCommand     |-> "ok",
   sizeOfUpgradeImage |-> 350,
   physicalMemory     |-> 4096,
   cpu                |-> <<"GenuineIntel", 6, 63>>,
   allowLegacyCPU     |-> FALSE,
   numCpuCores        |-> 2,
   hvSupport          |-> 3,
   longMode           |-> 1,
   nxBit              |-> 1,
   vmfs3              |-> FALSE,
   unsupportedDevices |-> << >>,
   hwProblems         |-> << >>,
   confvibs           |-> << >>,
   depvibs            |-> << >>,
   totalsizeMB        |-> 300,
   maximumMB          |-> 500,
   lockerFreeSpace    |-> "ok",
   availMiB           |-> 100,
   extraNeededMiB     |-> 20,
   bootDiskMiB        |-> 8192,
   systemDiskSmallMB  |-> 4096,
   systemStorage      |-> TRUE,
   issuevib           |-> << >>,
   updatePending      |-> FALSE,
   nativeTargetImage  |-> TRUE,
   ip                 |-> "10.0.0.1",
   vmkNics            |-> << [ip |-> "10.0.0.1", uplinkOrder |-> "ok",
                              upLinks |-> << Name(vmnic, <<"0">>) >>] >>,
   pxeBooting         |-> FALSE,
   diskAdapter        |-> Name(vmhba, <<"0">>),
   hostAcceptance     |-> "partner",
   isoAcceptance      |-> "partner",
   hostProfileAcceptance |-> "partner",
   targetProfileAcceptance |-> "partner",
   targetImageProfile |-> {VibById("nic-exact")},
   pciInventory       |-> <<DevAhci, DevNic>>,
   adapterInventory   |-> <<AdSelf(DevAhci), AdChild>>,
   pciListCommand     |-> "ok",
   adapterListCommand |-> "ok"]

\* the other answers a host can give, answer by answer
Deviations ==
  [productInfo        |-> {"raises"},
   installedVersion   |-> { << >>, <<6, 0, 0>>, <<6, 5, 0>>, <<7, 0, 1>> },
   esxConf            |-> {"empty", "missing"},
   systemUuid         |-> {""},
   bootDeviceName     |-> {None},
   ramDiskCommand     |-> {"raises"},
   sizeOfUpgradeImage |-> {},
   physicalMemory     |-> {3968, 3967},
   cpu                |-> { <<"GenuineIntel", 6, 42>>, <<"GenuineIntel", 6, 44>>,
                            <<"AuthenticAMD", 21, 1>>, <<"AuthenticAMD", 16, 2>> },
   allowLegacyCPU     |-> {TRUE},
   numCpuCores        |-> {1},
   hvSupport          |-> {1},
   longMode           |-> {0},
   nxBit              |-> {0},
   vmfs3              |-> {TRUE},
   unsupportedDevices |-> { <<"8086:1229">> },
   hwProblems         |-> { <<"vendor">> },
   confvibs           |-> { <<"vib-a, vib-b">> },
   depvibs            |-> { <<"vib-c">> },
   totalsizeMB        |-> {501},
   maximumMB          |-> {},
   lockerFreeSpace    |-> {"raises"},
   availMiB           |-> {20, 19},
   extraNeededMiB     |-> {},
   bootDiskMiB        |-> {4095, 4094},
   systemDiskSmallMB  |-> {},
   systemStorage      |-> {FALSE},
   issuevib           |-> { <<"vib-d">> },
   updatePending      |-> {TRUE},
   nativeTargetImage  |-> {FALSE},
   ip                 |-> {""},
   vmkNics            |-> { << >>,
                            << [ip |-> "10.0.0.1", uplinkOrder |-> "ok",
                                upLinks |-> << >>] >>,
                            << [ip |-> "10.0.0.1", uplinkOrder |-> "ok",
                                upLinks |-> << Name(vmnic, <<"1">>) >>] >>,
                            << [ip |-> "10.0.0.1", uplinkOrder |-> "raises",
                                upLinks |-> << >>] >>,
                            << [ip |-> "10.0.0.2", uplinkOrder |-> "ok",
                                upLinks |-> << Name(vmnic, <<"0">>) >>] >> },
   pxeBooting         |-> {TRUE},
   diskAdapter        |-> { NoAdapter, Name(vmhba, <<"3", "3">>) },
   hostAcceptance     |-> {"", "community", "certified"},
   isoAcceptance      |-> {},
   hostProfileAcceptance |-> {"community"},
   targetProfileAcceptance |-> {},
   targetImageProfile |-> { {} },
   pciInventory       |-> { <<DevSata, DevNic>> },
   adapterInventory   |-> {},
   pciListCommand     |-> {"raises"},
   adapterListCommand |-> {"raises"}]

\* a host on which one check warns: its CPU is supported for the last time
LegacyHost == [BaseHost EXCEPT !.cpu = <<"GenuineIntel", 6, 45>>]

RECURSIVE HostsWithin(_)
\* the hosts that differ from BaseHost or LegacyHost in at most n answers
HostsWithin(n) ==
  IF n = 0 THEN {BaseHost, LegacyHost}
  ELSE LET H == HostsWithin(n - 1)
       IN H \cup UNION { UNION { { [h EXCEPT ![f] = v] : v \in Deviations[f] } :
                                    f \in DOMAIN Deviations } :
                           h \in H }

Hosts == HostsWithin(MaxDeviations)

\* ------------------------------------------------------------------------
\* The checks: the Result each returns, from the host's answers h, the
\* probe p (systemProbe) and the native set (systemProbe.nativeDevices)
\* ------------------------------------------------------------------------

\* (4 * 1024) * SIZE_MiB, in MiB
MEM_MIN_SIZE == 4 * 1024

checkMemorySize(h) ==
  Result("MEMORY_SIZE", <<h.physicalMemory>>, <<MEM_MIN_SIZE>>,
         "memorySizeComparator", "The memory is less than recommended", ERROR)

\* _getProductInfo() raises inside checkUpgradePath: outside Weasel the
\* installed version is read from the VSI node
checkUpgradePathRaises(h, p) ==
  p.environment # "weasel" /\ h.productInfo = "raises"

checkUpgradePath(h, p) ==
  Result("UPGRADE_PATH", PRODUCT_VERSION_NUMBER, h.installedVersion,
         "upgradePathComparator", "Upgrading is not supported.", ERROR)

HV_ENABLED == 3

checkHardwareVirtualization(h) ==
  Result("HARDWARE_VIRTUALIZATION", <<h.hvSupport>>, <<HV_ENABLED>>,
         DefaultComparator, "Hardware Virtualization is not enabled", WARNING)

checkLAHFSAHF64bitFeatures(h) ==
  Result("64BIT_LONGMODESTATUS", <<h.longMode>>, <<1>>, DefaultComparator,
         "ESXi requires a 64-bit CPU", ERROR)

checkNXbitCpuFeature(h) ==
  Result("NXBIT_ENABLED", <<h.nxBit>>, <<1>>, DefaultComparator,
         "ESXi requires a CPU with NX/XD", ERROR)

\* mismatchCode of checkCpuSupported after the vendor/family/model tests
CpuClass(vendor, family, model) ==
  IF vendor = "GenuineIntel"
  THEN IF family = 6 /\ model \in {42, 45, 58} THEN WARNING
       ELSE IF family = 15 \/ (family = 6 /\ model <= 54) THEN ERROR
       ELSE SUCCESS
  ELSE IF vendor = "AuthenticAMD"
  THEN IF family < 21 THEN ERROR
       ELSE IF family = 21 /\ model <= 1 THEN WARNING
       ELSE SUCCESS
  ELSE SUCCESS

\* mutant of checkCpuSupported: the warning is not silenced under VUM
checkCpuSupportedNotSilenced(h, p) ==
  LET class        == CpuClass(h.cpu[1], h.cpu[2], h.cpu[3])
      mismatchCode == IF h.allowLegacyCPU /\ class = ERROR
                      THEN WARNING ELSE class
  IN Result("CPU_SUPPORT", <<FALSE>>, <<TRUE>>, DefaultComparator, "",
            mismatchCode)

checkCpuSupported(h, p) ==
  LET class        == CpuClass(h.cpu[1], h.cpu[2], h.cpu[3])
      found        == p.environment = "vum" /\ class = WARNING
      mismatchCode == IF h.allowLegacyCPU /\ class = ERROR
                      THEN WARNING ELSE class
      errorMsg     == CASE class = WARNING -> "CPU_WARNING"
                        [] class = ERROR -> "CPU_ERROR"
                        [] OTHER -> ""
  IN Result("CPU_SUPPORT", <<found>>, <<TRUE>>, DefaultComparator, errorMsg,
            mismatchCode)

CPU_MIN_CORE == 2

checkCpuCores(h) ==
  Result("CPU_CORES", <<h.numCpuCores>>, <<CPU_MIN_CORE>>, "operator.ge",
         "The host has less than 2 CPU cores", ERROR)

checkInitializable(h) ==
  IF h.productInfo = "raises"
  THEN Result("PRECHECK_INITIALIZE", << >>, <<"version">>, DefaultComparator,
              "", None)
  ELSE Result("PRECHECK_INITIALIZE",
              <<"version">> \o
                (IF h.esxConf # "missing" THEN <<"esx.conf">> ELSE << >>),
              <<"version", "esx.conf">>, DefaultComparator, "", None)

\* allocateRamDisk(RAMDISK_NAME, expected) returns True
allocateRamDisk(h) == h.ramDiskCommand = "ok"

checkAvailableSpaceForISO(h, p) ==
  LET expected == h.sizeOfUpgradeImage
  IN IF p.bootDeviceName = None
     THEN Result("SPACE_AVAIL_ISO", <<0>>, <<expected>>, "operator.ge", "",
                 None)
     ELSE Result("SPACE_AVAIL_ISO",
                 <<IF allocateRamDisk(h) THEN expected ELSE 0>>, <<expected>>,
                 "operator.ge", "", None)

\* whether RAMDISK_NAME exists after checkAvailableSpaceForISO: the directory
\* is made and the ramdisk added, or removed again when the command fails
RamDiskAfterCheck(h, p, before) ==
  IF p.bootDeviceName = None THEN before ELSE allocateRamDisk(h)

checkSaneEsxConf(h) ==
  Result("SANE_ESX_CONF", <<h.esxConf = "present" /\ h.systemUuid # "">>,
         <<TRUE>>, DefaultComparator, "", None)

checkVMFSVersion(h) ==
  Result("VMFS_VERSION", <<h.vmfs3>>, <<FALSE>>, DefaultComparator,
         "One or more VMFS-3 volumes have been detected.", WARNING)

checkUnsupportedDevices(h) ==
  Result("UNSUPPORTED_DEVICES", h.unsupportedDevices, << >>,
         DefaultComparator, "Unsupported devices are found", WARNING)

checkHostHw(h) ==
  Result("VALIDATE_HOST_HW", h.hwProblems, << >>, DefaultComparator,
         "VIBs without matching host hardware found", ERROR)

\* rc = Result("CONFLICTING_VIBS", ...) of checkVibConflicts
checkVibConflictsConstruct(h) ==
  Result("CONFLICTING_VIBS", h.confvibs, << >>, DefaultComparator,
         "Vibs on the host are conflicting with vibs in metadata.", ERROR)

\* rc = Result("MISSING_DEPENDENCY_VIBS", ...) of checkVibDependencies
checkVibDependenciesConstruct(h) ==
  Result("MISSING_DEPENDENCY_VIBS", h.depvibs, << >>, DefaultComparator,
         "These vibs on the host are missing dependency.", ERROR)

\* 'if not confvibs: rc.code = Result.SUCCESS' and the like in
\* checkVibDependencies: the check stores into rc after constructing it
StoresCode(list) == list = << >>

checkImageProfileSize(h) ==
  IF h.totalsizeMB > h.maximumMB
  THEN Result("IMAGEPROFILE_SIZE", <<h.totalsizeMB>>, <<h.maximumMB>>,
              DefaultComparator, "The image profile size is too large", ERROR)
  ELSE Result("IMAGEPROFILE_SIZE", << >>, << >>, DefaultComparator, "", None)

checkLockerSpaceAvail(h) ==
  IF h.lockerFreeSpace = "raises"
  THEN Result("LOCKER_SPACE_AVAIL", << >>, << >>, DefaultComparator,
              "Locker partition does not have enough space", ERROR)
  ELSE Result("LOCKER_SPACE_AVAIL", <<h.availMiB>>, <<h.extraNeededMiB>>,
              DefaultComparator, "Locker partition does not have enough space",
              IF h.extraNeededMiB > h.availMiB THEN ERROR ELSE SUCCESS)

checkBootDiskSize(h, p) ==
  LET found        == IF p.bootDeviceName # None THEN h.bootDiskMiB ELSE 0
      mismatchCode == IF p.bootDeviceName # None /\ h.systemStorage
                      THEN ERROR ELSE SUCCESS
  IN Result("BOOT_DISK_SIZE", <<found>>, <<h.systemDiskSmallMB>>,
            "bootDiskSizeComparator", "Target version supports larger disks",
            mismatchCode)

checkPackageCompliance(h) ==
  Result("PACKAGE_COMPLIANCE", h.issuevib, << >>, DefaultComparator, "", ERROR)

checkUpdatesPending(h) ==
  Result("UPDATE_PENDING", <<h.updatePending>>, <<FALSE>>, DefaultComparator,
         "", None)

\* _isUplinkOrderNative(upLinks)
IsUplinkOrderNative(upLinks, native) ==
  upLinks = << >> \/ \E k \in 1..Len(upLinks) : upLinks[k] \in native

\* _isNicNative(ipAddress): "True", "False", or "raises"
IsNicNative(ipAddress, vmkNics, native) ==
  IF ipAddress # ""
  THEN LET withIp == { k \in 1..Len(vmkNics) : vmkNics[k].ip = ipAddress }
       IN IF withIp = {} THEN "raises"
          ELSE LET nic == vmkNics[CHOOSE k \in withIp : \A m \in withIp : k <= m]
               IN IF nic.uplinkOrder = "raises" THEN "raises"
                  ELSE IF IsUplinkOrderNative(nic.upLinks, native)
                       THEN "True" ELSE "False"
  ELSE LET decides == { k \in 1..Len(vmkNics) :
                          \/ vmkNics[k].uplinkOrder = "raises"
                          \/ IsUplinkOrderNative(vmkNics[k].upLinks, native) }
       IN IF decides = {} THEN "False"
          ELSE LET nic == vmkNics[CHOOSE k \in decides :
                                     \A m \in decides : k <= m]
               IN IF nic.uplinkOrder = "raises" THEN "raises" ELSE "True"

checkBootNicIsNative(h, p, native) ==
  LET found ==
        IF ~h.nativeTargetImage THEN TRUE
        ELSE IF p.environment = "vum"
             THEN IF h.ip = "" THEN FALSE
                  ELSE IsNicNative(h.ip, h.vmkNics, native) = "True"
             ELSE IsNicNative("", h.vmkNics, native) = "True"
  IN Result("NATIVE_BOOT_NIC", <<found>>, <<TRUE>>, DefaultComparator,
            "Boot NIC is either missing or has no native driver available.",
            None)

\* the check without the exemption of a host that boots over PXE
checkBootbankDeviceIsNativeNoPxe(h, native) ==
  LET found == IF h.nativeTargetImage
               THEN h.diskAdapter \in native
               ELSE TRUE
  IN Result("NATIVE_BOOTBANK", <<found>>, <<TRUE>>, DefaultComparator,
            "Native drivers are missing for bootbank storage device.", None)

checkBootbankDeviceIsNative(h, native) ==
  LET found == IF h.nativeTargetImage /\ ~h.pxeBooting
               THEN h.diskAdapter \in native
               ELSE TRUE
  IN Result("NATIVE_BOOTBANK", <<found>>, <<TRUE>>, DefaultComparator,
            "Native drivers are missing for bootbank storage device.", None)

\* systemProbe.upgradeImageProfile.acceptancelevel
TargetAcceptance(h, p) ==
  IF p.upgradeImageProfile = "hostImageProfile" THEN h.hostProfileAcceptance
  ELSE h.isoAcceptance

checkHostAcceptance(h, p) ==
  IF h.hostAcceptance = ""
  THEN Result("HOST_ACCEPTANCE", <<FALSE>>, <<TRUE>>, DefaultComparator,
              "Failed to get valid host acceptance level.", None)
  ELSE IF TRUST_ORDER[h.hostAcceptance] > TRUST_ORDER[TargetAcceptance(h, p)]
       THEN Result("HOST_ACCEPTANCE", <<FALSE>>, <<TRUE>>, DefaultComparator,
                   "Acceptance level of the host has to change", None)
       ELSE Result("HOST_ACCEPTANCE", <<TRUE>>, <<TRUE>>, DefaultComparator,
                   "", None)

\* ------------------------------------------------------------------------
\* The entry points
\* ------------------------------------------------------------------------

Entries ==
  { [action |-> "upgradeAction", forceMigrate |-> fm,
     targetImageProfile |-> FALSE, vmkLinuxOnly |-> FALSE] : fm \in BOOLEAN }
  \cup { [action |-> a, forceMigrate |-> FALSE, targetImageProfile |-> FALSE,
          vmkLinuxOnly |-> FALSE] : a \in {"installAction", "main"} }
  \cup { [action |-> "cliUpgradeAction", forceMigrate |-> FALSE,
          targetImageProfile |-> given, vmkLinuxOnly |-> only] :
            given \in BOOLEAN, only \in BOOLEAN }
  \cup { [action |-> "imageManagerAction", forceMigrate |-> FALSE,
          targetImageProfile |-> TRUE, vmkLinuxOnly |-> FALSE] }

\* the environment the entry point passes to init()
EnvironmentOf(e) ==
  CASE e.action \in {"upgradeAction", "installAction"} -> "weasel"
    [] e.action = "main" -> "vum"
    [] OTHER -> "esxcli"

\* init(): SystemProbeESXi.__init__ and ImageMetadata.__init__
InitProbe(e, h) ==
  LET environment == EnvironmentOf(e)
  IN [environment    |-> environment,
      bootDeviceName |-> h.bootDeviceName,
      imageMetadata  |-> environment # "esxcli" \/ e.targetImageProfile,
      upgradeImageProfile |->
        IF environment = "vum" THEN "iso"
        ELSE IF environment = "weasel" THEN "visorfs"
        ELSE IF e.action = "imageManagerAction" THEN "hostImageProfile"
        ELSE None]

\* self.nativeDevices = self._getNativeDevices(), where __init__ calls it
InitNativeDevices(e, h) ==
  IF EnvironmentOf(e) # "esxcli" \/ e.targetImageProfile
  THEN GetNativeDevices(h.targetImageProfile,
                        PciListRetrieved(h.pciListCommand = "ok",
                                         h.pciInventory),
                        AdapterListRetrieved(h.adapterListCommand = "ok",
                                             h.adapterInventory))
  ELSE {}

regularTests ==
  <<"checkUpgradePath", "checkMemorySize", "checkCpuSupported",
    "checkCpuCores", "checkUnsupportedDevices", "checkBootDiskSize">>

vmkLinuxTests == <<"checkBootNicIsNative", "checkBootbankDeviceIsNative">>

\* the lists with the branch on vmkLinuxOnly taken first in cliUpgradeAction
TestsOfVmkLinuxOnlyFirst(e) ==
  IF e.action = "cliUpgradeAction"
  THEN IF e.vmkLinuxOnly THEN vmkLinuxTests
       ELSE IF ~e.targetImageProfile THEN regularTests
       ELSE regularTests \o vmkLinuxTests
  ELSE << >>

\* the list 'tests' each entry point builds
TestsOf(e) ==
  CASE e.action = "upgradeAction" ->
         <<"checkUpgradePath", "checkMemorySize", "checkCpuSupported",
           "checkCpuCores", "checkHostHw", "checkUnsupportedDevices",
           "checkVMFSVersion", "checkImageProfileSize">>
         \o (IF ~e.forceMigrate
             THEN <<"checkVibConflicts", "checkVibDependencies">>
             ELSE << >>)
    [] e.action = "installAction" ->
         <<"checkMemorySize", "checkCpuSupported",
           "checkHardwareVirtualization", "checkCpuCores",
           "checkLAHFSAHF64bitFeatures", "checkNXbitCpuFeature",
           "checkHostHw", "checkUnsupportedDevices", "checkVMFSVersion",
           "checkImageProfileSize">>
    [] e.action = "cliUpgradeAction" ->
         IF ~e.targetImageProfile THEN regularTests
         ELSE IF e.vmkLinuxOnly THEN vmkLinuxTests
         ELSE regularTests \o vmkLinuxTests
    [] e.action = "imageManagerAction" ->
         <<"checkMemorySize", "checkCpuSupported", "checkCpuCores",
           "checkUnsupportedDevices", "checkHostHw", "checkBootNicIsNative",
           "checkBootbankDeviceIsNative", "checkImageProfileSize",
           "checkLockerSpaceAvail", "checkBootDiskSize",
           "checkHostAcceptance">>
    [] e.action = "main" ->
         <<"checkAvailableSpaceForISO", "checkMemorySize",
           "checkCpuSupported", "checkCpuCores", "checkSaneEsxConf",
           "checkUnsupportedDevices", "checkPackageCompliance", "checkHostHw",
           "checkUpdatesPending", "checkVMFSVersion", "checkBootNicIsNative",
           "checkBootbankDeviceIsNative", "checkVibConflicts",
           "checkVibDependencies", "checkImageProfileSize",
           "checkLockerSpaceAvail", "checkBootDiskSize",
           "checkHostAcceptance">>

\* the checks that construct rc and then look at it again before returning
TwoStepChecks == {"checkVibConflicts", "checkVibDependencies"}

\* testFn() for the checks that return the Result they construct
CheckResult(test, h, p, native) ==
  CASE test = "checkUpgradePath" -> checkUpgradePath(h, p)
    [] test = "checkMemorySize" -> checkMemorySize(h)
    [] test = "checkCpuSupported" -> checkCpuSupported(h, p)
    [] test = "checkCpuCores" -> checkCpuCores(h)
    [] test = "checkHardwareVirtualization" -> checkHardwareVirtualization(h)
    [] test = "checkLAHFSAHF64bitFeatures" -> checkLAHFSAHF64bitFeatures(h)
    [] test = "checkNXbitCpuFeature" -> checkNXbitCpuFeature(h)
    [] test = "checkHostHw" -> checkHostHw(h)
    [] test = "checkUnsupportedDevices" -> checkUnsupportedDevices(h)
    [] test = "checkVMFSVersion" -> checkVMFSVersion(h)
    [] test = "checkImageProfileSize" -> checkImageProfileSize(h)
    [] test = "checkBootDiskSize" -> checkBootDiskSize(h, p)
    [] test = "checkBootNicIsNative" -> checkBootNicIsNative(h, p, native)
    [] test = "checkBootbankDeviceIsNative" ->
         checkBootbankDeviceIsNative(h, native)
    [] test = "checkLockerSpaceAvail" -> checkLockerSpaceAvail(h)
    [] test = "checkHostAcceptance" -> checkHostAcceptance(h, p)
    [] test = "checkAvailableSpaceForISO" -> checkAvailableSpaceForISO(h, p)
    [] test = "checkSaneEsxConf" -> checkSaneEsxConf(h)
    [] test = "checkPackageCompliance" -> checkPackageCompliance(h)
    [] test = "checkUpdatesPending" -> checkUpdatesPending(h)

\* testFn() raises instead of returning
CheckRaises(test, h, p) ==
  test = "checkUpgradePath" /\ checkUpgradePathRaises(h, p)

\* the names of the Results of list whose code is in codes, in order
NamesWithCode(list, codes) ==
  LET f[k \in 0..Len(list)] ==
        IF k = 0 THEN << >>
        ELSE IF list[k].code \in codes THEN Append(f[k - 1], list[k].name)
             ELSE f[k - 1]
  IN f[Len(list)]

\* the codes of the Results that are false and not ERROR: the else branch of
\* humanReadableResultBlurbs
OtherFailureCodes(list) ==
  { list[k].code : k \in 1..Len(list) } \ {SUCCESS, ERROR}

\* mutant of humanReadableResultBlurbs: every false Result is appended to
\* the warnings
humanReadableResultBlurbsAllWarn(list) ==
  [errors   |-> NamesWithCode(list, {ERROR}),
   warnings |-> NamesWithCode(list, {ERROR} \cup OtherFailureCodes(list)),
   xml      |-> << >>]

\* humanReadableResultBlurbs(results): the two strings, as the names of the
\* Results whose blurbs they join
humanReadableResultBlurbs(list) ==
  [errors   |-> NamesWithCode(list, {ERROR}),
   warnings |-> NamesWithCode(list, OtherFailureCodes(list)),
   xml      |-> << >>]

\* the two lists imageManagerAction returns
imageManagerLists(list) ==
  [errors   |-> NamesWithCode(list, {ERROR}),
   warnings |-> NamesWithCode(list, {WARNING}),
   xml      |-> << >>]

\* resultsToXML(results): name and code of every Result, in order
resultsToXML(list) ==
  [errors   |-> << >>,
   warnings |-> << >>,
   xml      |-> [k \in 1..Len(list) |-> <<list[k].name, list[k].code>>]]

\* mutant of AnyFailures: only an ERROR counts
AnyFailuresErrorsOnly(list) == \E k \in 1..Len(list) : list[k].code = ERROR

\* 'anyFailures' of main
AnyFailures(list) == \E k \in 1..Len(list) : ~Truth(list[k])

\* ------------------------------------------------------------------------
\* A precheck run as a state machine (specification SpecRun)
\* ------------------------------------------------------------------------

\* the variables of native-driver resolution, nativeDevices apart
resolverRest ==
  <<targetImageProfile, pciInventory, adapterInventory, pc, pciDriverTags,
    pciDevList, pciFailed, i, nativeSbdfIndex, adapterList, adapterFailed, j>>

InitRun ==
  /\ entry \in Entries
  /\ host \in Hosts
  /\ runPc = "start"
  /\ systemProbe = NoProbe
  /\ ramDisk \in BOOLEAN
  /\ tests = << >>
  /\ next = 1
  /\ results = << >>
  /\ rc = NoResult
  /\ assigned = {}
  /\ output = NoOutput
  /\ ArgsIdle
  /\ CallIdle
  /\ ResolverIdle
  /\ nativeDevices = {}

\* main, lines 2669-2677: checkInitializable, and the early return
MainInitializable ==
  /\ runPc = "start"
  /\ entry.action = "main"
  /\ results' = <<checkInitializable(host)>>
  /\ IF Truth(results'[1])
     THEN runPc' = "init" /\ output' = output
     ELSE runPc' = "returned" /\ output' = resultsToXML(results')
  /\ UNCHANGED <<callVars, resolverVars, entry, host, systemProbe, ramDisk, tests, next,
                 rc, assigned, args>>

\* init(...) and the construction of the list 'tests'
CallInit ==
  /\ \/ runPc = "start" /\ entry.action # "main"
     \/ runPc = "init"
  /\ systemProbe' = InitProbe(entry, host)
  /\ nativeDevices' = InitNativeDevices(entry, host)
  /\ tests' = TestsOf(entry)
  /\ next' = 1
  /\ runPc' = "tests"
  /\ UNCHANGED <<callVars, resolverRest, entry, host, ramDisk, results, rc, assigned,
                 output, args>>

\* a check that stored into the probe: 'systemProbe.bootDeviceName = None'
\* and 'systemProbe.nativeDevices = set()' before returning its Result
RunCheckStoringIntoProbe ==
  /\ runPc = "tests"
  /\ next <= Len(tests)
  /\ tests[next] \notin TwoStepChecks
  /\ ~CheckRaises(tests[next], host, systemProbe)
  /\ results' = Append(results,
                       CheckResult(tests[next], host, systemProbe,
                                   nativeDevices))
  /\ ramDisk' = IF tests[next] = "checkAvailableSpaceForISO"
                THEN RamDiskAfterCheck(host, systemProbe, ramDisk)
                ELSE ramDisk
  /\ next' = next + 1
  /\ systemProbe' = [systemProbe EXCEPT !.bootDeviceName = None]
  /\ nativeDevices' = {}
  /\ UNCHANGED <<callVars, resolverRest, entry, host, runPc, tests, rc,
                 assigned, output, args>>

\* testFn() for a check that returns the Result it constructs
RunCheck ==
  /\ runPc = "tests"
  /\ next <= Len(tests)
  /\ tests[next] \notin TwoStepChecks
  /\ ~CheckRaises(tests[next], host, systemProbe)
  /\ results' = Append(results,
                       CheckResult(tests[next], host, systemProbe,
                                   nativeDevices))
  /\ ramDisk' = IF tests[next] = "checkAvailableSpaceForISO"
                THEN RamDiskAfterCheck(host, systemProbe, ramDisk)
                ELSE ramDisk
  /\ next' = next + 1
  /\ UNCHANGED <<callVars, resolverVars, entry, host, runPc, systemProbe, tests, rc,
                 assigned, output, args>>

\* testFn() raises: the list comprehension and the entry point have no
\* handler, the exception leaves the entry point
CheckException ==
  /\ runPc = "tests"
  /\ next <= Len(tests)
  /\ CheckRaises(tests[next], host, systemProbe)
  /\ runPc' = "raised"
  /\ UNCHANGED <<callVars, resolverVars, entry, host, systemProbe, ramDisk, tests, next,
                 results, rc, assigned, output, args>>

\* checkVibConflicts, checkVibDependencies: rc = Result(...)
ConstructRc ==
  /\ runPc = "tests"
  /\ next <= Len(tests)
  /\ tests[next] \in TwoStepChecks
  /\ rc' = IF tests[next] = "checkVibConflicts"
           THEN checkVibConflictsConstruct(host)
           ELSE checkVibDependenciesConstruct(host)
  /\ runPc' = "constructed"
  /\ UNCHANGED <<callVars, resolverVars, entry, host, systemProbe, ramDisk, tests, next,
                 results, assigned, output, args>>

\* checkVibConflicts, checkVibDependencies: 'if not confvibs: rc.code =
\* Result.SUCCESS' and 'return rc'
ReturnRc ==
  /\ runPc = "constructed"
  /\ LET list == IF tests[next] = "checkVibConflicts"
                 THEN host.confvibs ELSE host.depvibs
     IN IF StoresCode(list)
        THEN /\ results' = Append(results, [rc EXCEPT !.code = SUCCESS])
             /\ assigned' = assigned \cup { <<rc.name, "code">> }
        ELSE /\ results' = Append(results, rc)
             /\ assigned' = assigned
  /\ rc' = NoResult
  /\ next' = next + 1
  /\ runPc' = "tests"
  /\ UNCHANGED <<callVars, resolverVars, entry, host, systemProbe, ramDisk, tests,
                 output, args>>

\* the end of the entry point: what it returns or prints
Return ==
  /\ runPc = "tests"
  /\ next > Len(tests)
  /\ output' = CASE entry.action = "main" -> resultsToXML(results)
                 [] entry.action = "imageManagerAction" ->
                      imageManagerLists(results)
                 [] OTHER -> humanReadableResultBlurbs(results)
  /\ ramDisk' = IF entry.action = "main" /\ AnyFailures(results)
                THEN FALSE ELSE ramDisk
  /\ runPc' = "returned"
  /\ UNCHANGED <<callVars, resolverVars, entry, host, systemProbe, tests, next, results,
                 rc, assigned, args>>

\* prep.calcExpectedPaths(), run after main: the ramdisk at RAMDISK_NAME is
\* used if it exists, and allocated if not
CalcExpectedPaths ==
  /\ runPc = "returned"
  /\ entry.action = "main"
  /\ IF ramDisk
     THEN runPc' = "reused" /\ ramDisk' = ramDisk
     ELSE runPc' = "allocated" /\ ramDisk' = allocateRamDisk(host)
  /\ UNCHANGED <<callVars, resolverVars, entry, host, systemProbe, tests, next,
                 results, rc, assigned, output, args>>

NextRun ==
  \/ CalcExpectedPaths
  \/ MainInitializable
  \/ CallInit
  \/ RunCheck
  \/ CheckException
  \/ ConstructRc
  \/ ReturnRc
  \/ Return

SpecRun == InitRun /\ [][NextRun]_vars

\* ------------------------------------------------------------------------
\* Part 3: one call of Result(...) on its own (specification SpecResult)
\* ------------------------------------------------------------------------

\* lists of numbers for found and expected
Lists == UNION { [1..n -> 0..MaxValue] : n \in 0..MaxLen }

\* the arguments of a call; None stands for an argument that is not passed
ResultArgs ==
  [name         : {"TEST"},
   found        : Lists,
   expected     : Lists,
   comparator   : {None, "operator.eq", "operator.ge"},
   errorMsg     : {"", "msg"},
   mismatchCode : {None, "", SUCCESS, WARNING, ERROR}]

InitResult ==
  /\ args \in ResultArgs
  /\ entry = NoEntry
  /\ host = << >>
  /\ runPc = "idle"
  /\ systemProbe = NoProbe
  /\ ramDisk = FALSE
  /\ tests = << >>
  /\ next = 1
  /\ results = << >>
  /\ rc = NoResult
  /\ assigned = {}
  /\ output = NoOutput
  /\ CallIdle
  /\ ResolverIdle
  /\ nativeDevices = {}

\* rc = Result(name, found, expected, ...)
Construct ==
  /\ rc = NoResult
  /\ rc' = Result(args.name, args.found, args.expected,
                  IF args.comparator = None THEN DefaultComparator
                  ELSE args.comparator,
                  args.errorMsg, args.mismatchCode)
  /\ UNCHANGED <<callVars, resolverVars, entry, host, runPc, systemProbe, ramDisk,
                 tests, next, results, assigned, output, args>>

NextResult == Construct

SpecResult == InitResult /\ [][NextResult]_vars


\* ------------------------------------------------------------------------
\* Part 4: functions of the module called on their own (specification
\* SpecCall).  class PciInfo
\* ------------------------------------------------------------------------

\* str.lower() on the characters of hexadecimal ids
LowerChar(c) ==
  CASE c = "A" -> "a" [] c = "B" -> "b" [] c = "C" -> "c"
    [] c = "D" -> "d" [] c = "E" -> "e" [] c = "F" -> "f"
    [] OTHER -> c

\* s.lower()
Lower(s) == [k \in 1..Len(s) |-> LowerChar(s[k])]

\* subsystem=None
NoSubsystem == <<"None">>

\* PciInfo.__init__: 'if subsystem:' is false for None and for ''
PciInfo(vendorId, deviceId, subsystem) ==
  [vendorId  |-> Lower(vendorId),
   deviceId  |-> Lower(deviceId),
   subsystem |-> IF subsystem # NoSubsystem /\ subsystem # << >>
                 THEN Lower(subsystem) ELSE subsystem]

\* mutant of PciEq: the subsystem is always compared
PciEqAllFields(self, rhs) ==
  /\ self.vendorId = rhs.vendorId
  /\ self.deviceId = rhs.deviceId
  /\ self.subsystem = rhs.subsystem

\* PciInfo.__eq__
PciEq(self, rhs) ==
  IF self.subsystem = NoSubsystem \/ rhs.subsystem = NoSubsystem
  THEN self.vendorId = rhs.vendorId /\ self.deviceId = rhs.deviceId
  ELSE /\ self.vendorId = rhs.vendorId
       /\ self.deviceId = rhs.deviceId
       /\ self.subsystem = rhs.subsystem

\* mutant of PciNe: the negation of __eq__
PciNeAsNotEq(self, rhs) == ~PciEq(self, rhs)

\* PciInfo.__ne__
PciNe(self, rhs) ==
  \/ self.vendorId # rhs.vendorId
  \/ self.deviceId # rhs.deviceId
  \/ self.subsystem # rhs.subsystem

\* arguments of PciInfo(...): ids in either case, the subsystem None, '' or
\* 'subven:subdev'
PciInfoArgs ==
  [vendorId  : { <<"1", "0", "e", "c">>, <<"1", "0", "E", "C">>,
                 <<"8", "0", "8", "6">> },
   deviceId  : { <<"1", "a">>, <<"1", "A">>, <<"2", "b">> },
   subsystem : { NoSubsystem, << >>, <<"1", ":", "a">>, <<"1", ":", "A">>,
                 <<"2", ":", "b">> }]

PciCalls ==
  [fn : {"PciInfo.__eq__", "PciInfo.__ne__"}, a : PciInfoArgs, b : PciInfoArgs]

\* PciInfo(a...) == PciInfo(b...)
CallPciEq ==
  /\ call.fn = "PciInfo.__eq__"
  /\ ~returned
  /\ value' = PciEq(PciInfo(call.a.vendorId, call.a.deviceId, call.a.subsystem),
                    PciInfo(call.b.vendorId, call.b.deviceId, call.b.subsystem))
  /\ returned' = TRUE
  /\ UNCHANGED <<resolverVars, runVars, call>>

\* PciInfo(a...) != PciInfo(b...)
CallPciNe ==
  /\ call.fn = "PciInfo.__ne__"
  /\ ~returned
  /\ value' = PciNe(PciInfo(call.a.vendorId, call.a.deviceId, call.a.subsystem),
                    PciInfo(call.b.vendorId, call.b.deviceId, call.b.subsystem))
  /\ returned' = TRUE
  /\ UNCHANGED <<resolverVars, runVars, call>>

\* ------------------------------------------------------------------------
\* class ImageMetadata.  An image profile is the set of its units (VIBs); a
\* unit is identified by its name and version.
\* ------------------------------------------------------------------------

MaxVersion == 2

UnitNames == {"esx-base", "net-igb", "tools-light"}

Units == [name : UnitNames, version : 1..MaxVersion]

\* an image profile holds at most one unit of a name
Profiles ==
  {P \in SUBSET Units : \A u \in P : \A v \in P : u.name = v.name => u = v}

\* hostImageProfile.ScanVibs(upgradeImageProfile.vibs): the units of the
\* other collection classified against the profile
ScanVibs(profile, vibs) ==
  [updates    |-> {v \in vibs : \E u \in profile :
                     u.name = v.name /\ u.version < v.version},
   downgrades |-> {v \in vibs : \E u \in profile :
                     u.name = v.name /\ u.version > v.version},
   new        |-> {v \in vibs : \A u \in profile : u.name # v.name},
   existing   |-> vibs \cap profile]

\* imageProfile.AddVib(vib, replace=True): the unit takes the place of the
\* units it replaces
AddVib(profile, vib) ==
  {u \in profile : ~(u.name = vib.name /\ u.version < vib.version)}
    \cup {vib}

\* for vid in (up | new): imageProfile.AddVib(upgradeImageProfile.vibs[vid],
\* replace=True)
RECURSIVE AddVibs(_, _)
AddVibs(imageProfile, vids) ==
  IF vids = {} THEN imageProfile
  ELSE LET vid == CHOOSE v \in vids : TRUE
       IN AddVibs(AddVib(imageProfile, vid), vids \ {vid})

\* mutant of GetTargetImageProfile: only the updated units are merged
GetTargetImageProfileUpdatesOnly(hostImageProfile, upgradeImageProfile) ==
  AddVibs(hostImageProfile,
          ScanVibs(hostImageProfile, upgradeImageProfile).updates)

\* ImageMetadata._getTargetImageProfile
GetTargetImageProfile(hostImageProfile, upgradeImageProfile) ==
  LET scan == ScanVibs(hostImageProfile, upgradeImageProfile)
  IN AddVibs(hostImageProfile, scan.updates \cup scan.new)

TargetCalls ==
  [fn : {"_getTargetImageProfile"}, host : Profiles, upgrade : Profiles]

\* ImageMetadata._getTargetImageProfile(host, upgrade)
CallGetTargetImageProfile ==
  /\ call.fn = "_getTargetImageProfile"
  /\ ~returned
  /\ value' = GetTargetImageProfile(call.host, call.upgrade)
  /\ returned' = TRUE
  /\ UNCHANGED <<resolverVars, runVars, call>>

\* ------------------------------------------------------------------------
\* ImageMetadata._calcImageSize.  Sizes are in bytes.  A profile is the
\* sequence of its units, a unit the sequence of its payloads.
\* ------------------------------------------------------------------------

SIZE_MiB == 1024 * 1024

TYPE_BOOT == "boot"

MaxUnits == 2

MaxPayloads == 2

PayloadSizes == {1, 2}

Payloads == [size : PayloadSizes, payloadtype : {TYPE_BOOT, "tgz"}]

SeqsUpTo(S, n) == UNION {[1..k -> S] : k \in 0..n}

SizedProfiles ==
  SeqsUpTo([payloads : SeqsUpTo(Payloads, MaxPayloads)], MaxUnits)

\* mutant of PayloadSize: a boot payload is counted once
PayloadSizeOnce(payload) == payload.size

\* the body of the inner loop: what one payload adds to totalSize
PayloadSize(payload) ==
  IF payload.payloadtype = TYPE_BOOT
  THEN payload.size + payload.size
  ELSE payload.size

\* for payload in vib.payloads
RECURSIVE VibSize(_)
VibSize(payloads) ==
  IF payloads = << >> THEN 0
  ELSE PayloadSize(Head(payloads)) + VibSize(Tail(payloads))

\* for vib in imageProfile.vibs.values()
RECURSIVE TotalSize(_)
TotalSize(vibs) ==
  IF vibs = << >> THEN 0
  ELSE VibSize(Head(vibs).payloads) + TotalSize(Tail(vibs))

\* ImageMetadata._calcImageSize
CalcImageSize(imageProfile) == TotalSize(imageProfile) + (10 * SIZE_MiB)

SizeCalls == [fn : {"_calcImageSize"}, imageProfile : SizedProfiles]

\* ImageMetadata._calcImageSize(imageProfile)
CallCalcImageSize ==
  /\ call.fn = "_calcImageSize"
  /\ ~returned
  /\ value' = CalcImageSize(call.imageProfile)
  /\ returned' = TRUE
  /\ UNCHANGED <<resolverVars, runVars, call>>

\* ------------------------------------------------------------------------
\* A check called on a host of its own: the host answers like BaseHost but
\* for the fact the check reads; the probe is the one init() builds for the
\* script run as a program.
\* ------------------------------------------------------------------------

CallEntry == CHOOSE e \in Entries : e.action = "main"

VersionParts == {0, 1, 5, 6, 7}

\* the installed version: unknown, or 'x.x.x' as a list of numbers
InstalledVersions == { << >> } \cup [1..3 -> VersionParts]

UpgradePathCalls ==
  [fn   : {"checkUpgradePath"},
   host : {[BaseHost EXCEPT !.installedVersion = v] : v \in InstalledVersions}]

\* checkUpgradePath()
CallCheckUpgradePath ==
  /\ call.fn = "checkUpgradePath"
  /\ ~returned
  /\ value' = checkUpgradePath(call.host, InitProbe(CallEntry, call.host))
  /\ returned' = TRUE
  /\ UNCHANGED <<resolverVars, runVars, call>>

\* GetPhysicalMemory(), in whole MiB: the bound of the comparison, 3968 MiB,
\* is a whole number of MiB, so the bytes above the last MiB decide nothing
MemorySizes == {0, 3900, 4096, 8192} \cup (3960..3975)

MemorySizeCalls ==
  [fn   : {"checkMemorySize"},
   host : {[BaseHost EXCEPT !.physicalMemory = m] : m \in MemorySizes}]

\* checkMemorySize()
CallCheckMemorySize ==
  /\ call.fn = "checkMemorySize"
  /\ ~returned
  /\ value' = checkMemorySize(call.host)
  /\ returned' = TRUE
  /\ UNCHANGED <<resolverVars, runVars, call>>

\* round(os.stat(diskPath).st_size / SIZE_MiB)
BootDiskSizes == {0, 1024, 8192} \cup (4090..4100)

BootDiskSizeCalls ==
  [fn   : {"checkBootDiskSize"},
   host : {[BaseHost EXCEPT !.bootDiskMiB = m, !.bootDeviceName = d,
                             !.systemStorage = e] :
             m \in BootDiskSizes, d \in {BaseHost.bootDeviceName, None},
             e \in BOOLEAN}]

\* checkBootDiskSize()
CallCheckBootDiskSize ==
  /\ call.fn = "checkBootDiskSize"
  /\ ~returned
  /\ value' = checkBootDiskSize(call.host, InitProbe(CallEntry, call.host))
  /\ returned' = TRUE
  /\ UNCHANGED <<resolverVars, runVars, call>>

\* the checks that can return a WARNING, each called in the environment an
\* entry point sets up
WarningChecks ==
  {"checkCpuSupported", "checkVMFSVersion", "checkUnsupportedDevices",
   "checkHardwareVirtualization"}

CpuModels ==
  { <<"GenuineIntel", 6, 63>>, <<"GenuineIntel", 6, 42>>,
    <<"GenuineIntel", 6, 45>>, <<"GenuineIntel", 6, 58>>,
    <<"GenuineIntel", 6, 44>>, <<"GenuineIntel", 15, 4>>,
    <<"AuthenticAMD", 21, 1>>, <<"AuthenticAMD", 21, 2>>,
    <<"AuthenticAMD", 16, 2>>, <<"HygonGenuine", 24, 0>> }

WarningHosts ==
  {[BaseHost EXCEPT !.cpu = c, !.allowLegacyCPU = a, !.vmfs3 = f,
                    !.unsupportedDevices = u, !.hvSupport = v] :
     c \in CpuModels, a \in BOOLEAN, f \in BOOLEAN,
     u \in { << >>, <<"8086:1229">> }, v \in {3, 1}}

EnvironmentCalls ==
  [fn : {"checkInEnvironment"}, test : WarningChecks, entry : Entries,
   host : WarningHosts]

\* init(environment, ...) of the entry point, then testFn()
CallCheckInEnvironment ==
  /\ call.fn = "checkInEnvironment"
  /\ ~returned
  /\ value' = CheckResult(call.test, call.host,
                          InitProbe(call.entry, call.host), {})
  /\ returned' = TRUE
  /\ UNCHANGED <<resolverVars, runVars, call>>

\* ------------------------------------------------------------------------
\* allocateRamDisk and deallocateRamDisk on the staging area at dirname: the
\* directory, and the number of ramdisks mounted on it.  The commands
\* 'ramdisk add' and 'ramdisk remove' succeed or fail as the host decides.
\* ------------------------------------------------------------------------

StagingAreas ==
  { [dir |-> FALSE, ramdisks |-> 0], [dir |-> TRUE, ramdisks |-> 0],
    [dir |-> TRUE, ramdisks |-> 1] }

\* deallocateRamDisk(dirname): 'ramdisk remove' with raiseException=False,
\* then shutil.rmtree(dirname, ignore_errors=True), which leaves a directory
\* that a ramdisk is still mounted on
deallocateRamDisk(area, removeOk) ==
  IF ~area.dir THEN area
  ELSE LET left == IF removeOk /\ area.ramdisks > 0
                   THEN area.ramdisks - 1 ELSE area.ramdisks
       IN [dir |-> left > 0, ramdisks |-> left]

\* mutant of AfterFailedAdd: nothing is released when the command fails
AfterFailedAddKept(area, removeOk) == area

\* the except branch of allocateRamDisk: deallocateRamDisk(dirname)
AfterFailedAdd(area, removeOk) == deallocateRamDisk(area, removeOk)

\* allocateRamDisk(dirname, sizeInBytes): what it returns, or that it
\* raises, and the staging area it leaves
allocateRamDiskAt(area, removeOk, addOk) ==
  LET cleared == IF area.dir THEN deallocateRamDisk(area, removeOk) ELSE area
  IN IF cleared.dir
     THEN [returns |-> "raises", area |-> cleared]
     ELSE LET made == [cleared EXCEPT !.dir = TRUE]
          IN IF addOk
             THEN [returns |-> "True",
                   area    |-> [made EXCEPT !.ramdisks = @ + 1]]
             ELSE [returns |-> "False",
                   area    |-> AfterFailedAdd(made, removeOk)]

RamDiskCalls ==
  [fn : {"allocateRamDisk"}, area : StagingAreas, removeOk : BOOLEAN,
   addOk : BOOLEAN]

\* allocateRamDisk(RAMDISK_NAME, expected)
CallAllocateRamDisk ==
  /\ call.fn = "allocateRamDisk"
  /\ ~returned
  /\ value' = allocateRamDiskAt(call.area, call.removeOk, call.addOk)
  /\ returned' = TRUE
  /\ UNCHANGED <<resolverVars, runVars, call>>

\* ------------------------------------------------------------------------
\* The calls as a state machine
\* ------------------------------------------------------------------------

\* the devices vmkctl's GetAllPciDevices() lists, with numeric ids
HostPciDevices ==
  [vendor : {3601, 32902}, device : {45152, 70}, subven : {3601},
   subdev : {16496, 16529}]

\* _parsePciInfo(): the ids as four hexadecimal digits, the subsystem as
\* 'subven:subdev'
parsePciInfo(devices) ==
  [k \in 1..Len(devices) |->
     PciInfo(Fmt04x(devices[k].vendor), Fmt04x(devices[k].device),
             Fmt04x(devices[k].subven) \o <<":">>
               \o Fmt04x(devices[k].subdev))]

\* entries of a list like UNSUPPORTED_PCI_DEVICE_LIST, as written in the
\* source: PciInfo(vendorId, deviceId, subsystem, description)
DeniedEntries ==
  { [vendorId |-> <<"0", "e", "1", "1">>, deviceId |-> <<"b", "0", "6", "0">>,
     subsystem |-> NoSubsystem],
    [vendorId |-> <<"0", "E", "1", "1">>, deviceId |-> <<"B", "0", "6", "0">>,
     subsystem |-> <<"0", "E", "1", "1", ":", "4", "0", "7", "0">>],
    [vendorId |-> <<"0", "e", "1", "1">>, deviceId |-> <<"b", "0", "6", "0">>,
     subsystem |-> <<"0", "e", "1", "1", ":", "4", "0", "9", "1">>],
    [vendorId |-> <<"0", "e", "1", "1">>, deviceId |-> <<"0", "0", "4", "6">>,
     subsystem |-> <<"0", "e", "1", "1", ":", "4", "0", "9", "1">>],
    [vendorId |-> <<"0", "e", "1", "1">>, deviceId |-> <<"0", "0", "4", "6">>,
     subsystem |-> NoSubsystem],
    [vendorId |-> <<"8", "0", "8", "6">>, deviceId |-> <<"b", "0", "6", "0">>,
     subsystem |-> NoSubsystem] }

\* the PciInfo objects of the list
DeniedList(entries) ==
  [k \in 1..Len(entries) |->
     PciInfo(entries[k].vendorId, entries[k].deviceId, entries[k].subsystem)]

MaxHostDevices == 2

MaxDenied == 2

\* mutant of IsUnsupported: the subsystem of the entry must be that of the
\* device
IsUnsupportedExact(device, list) ==
  \E k \in 1..Len(list) : PciEqAllFields(device, list[k])

\* checkUnsupportedDevices, the body of the loop: 'device in LIST', and for a
\* device without subsystem 'None in unsprtMatch'
IsUnsupported(device, list) ==
  /\ \E k \in 1..Len(list) : PciEq(list[k], device)
  /\ (device.subsystem = NoSubsystem \/ device.subsystem = << >>) =>
       LET unsprtMatch == { list[k].subsystem :
                              k \in { m \in 1..Len(list) :
                                        PciEq(device, list[m]) } }
       IN NoSubsystem \in unsprtMatch

RECURSIVE UnsupportedDevicesFound(_, _)
\* checkUnsupportedDevices, the loop: the list 'found'
UnsupportedDevicesFound(devices, list) ==
  IF devices = << >> THEN << >>
  ELSE (IF IsUnsupported(Head(devices), list) THEN <<Head(devices)>>
        ELSE << >>)
       \o UnsupportedDevicesFound(Tail(devices), list)

UnsupportedDeviceCalls ==
  [fn      : {"checkUnsupportedDevices"},
   devices : SeqsUpTo(HostPciDevices, MaxHostDevices),
   denied  : SeqsUpTo(DeniedEntries, MaxDenied)]

\* checkUnsupportedDevices() with the devices of the host and the list
CallCheckUnsupportedDevices ==
  /\ call.fn = "checkUnsupportedDevices"
  /\ ~returned
  /\ value' = Result("UNSUPPORTED_DEVICES",
                     UnsupportedDevicesFound(parsePciInfo(call.devices),
                                             DeniedList(call.denied)),
                     << >>, DefaultComparator,
                     "Unsupported devices are found", WARNING)
  /\ returned' = TRUE
  /\ UNCHANGED <<resolverVars, runVars, call>>

\* the adapter _getDiskAdapterName returns (None when it cannot tell) and
\* the sets of native devices the probe can hold
BootbankAdapters == { NoAdapter, Name(vmhba, <<"0">>), Name(vmhba, <<"1">>) }

BootbankNativeSets ==
  SUBSET { Name(vmhba, <<"0">>), Name(vmhba, <<"1">>), Name(vmnic, <<"0">>) }

BootbankCalls ==
  [fn     : {"checkBootbankDeviceIsNative"},
   host   : {[BaseHost EXCEPT !.nativeTargetImage = n, !.pxeBooting = x,
                               !.diskAdapter = d] :
               n \in BOOLEAN, x \in BOOLEAN, d \in BootbankAdapters},
   native : BootbankNativeSets]

\* checkBootbankDeviceIsNative()
CallCheckBootbankDeviceIsNative ==
  /\ call.fn = "checkBootbankDeviceIsNative"
  /\ ~returned
  /\ value' = checkBootbankDeviceIsNative(call.host, call.native)
  /\ returned' = TRUE
  /\ UNCHANGED <<resolverVars, runVars, call>>

InitCall ==
  /\ \/ call \in PciCalls
     \/ call \in TargetCalls
     \/ call \in SizeCalls
     \/ call \in UpgradePathCalls
     \/ call \in MemorySizeCalls
     \/ call \in BootDiskSizeCalls
     \/ call \in EnvironmentCalls
     \/ call \in RamDiskCalls
     \/ call \in BootbankCalls
     \/ call \in UnsupportedDeviceCalls
  /\ returned = FALSE
  /\ value = FALSE
  /\ RunIdle
  /\ ResolverIdle
  /\ nativeDevices = {}

NextCall ==
  \/ CallPciEq
  \/ CallPciNe
  \/ CallGetTargetImageProfile
  \/ CallCalcImageSize
  \/ CallCheckUpgradePath
  \/ CallCheckMemorySize
  \/ CallCheckBootDiskSize
  \/ CallCheckInEnvironment
  \/ CallAllocateRamDisk
  \/ CallCheckBootbankDeviceIsNative
  \/ CallCheckUnsupportedDevices

SpecCall == InitCall /\ [][NextCall]_vars

\* ------------------------------------------------------------------------
\* Properties of native-driver resolution
\* ------------------------------------------------------------------------

Rows(list) == { list[k] : k \in 1..Len(list) }

AHCI == <<"0", "1", "0", "6", "0", "1">>

NVMe == <<"0", "1", "0", "8", "0", "2">>

\* a row the second step looks at: a storage or network device
IsHbaOrNic(device) == DeviceNamesMatch(device.name)

\* the class code of the row is one of the always-native classes
IsAlwaysNativeClass(device) == ClassCode(device) \in {AHCI, NVMe}

\* the PCI loop is over
PciStepOver == pc \in {"getadapters", "indexloop", "adapterloop", "done"}

\* tag and identity have the same width and agree at every position, a
\* wildcard in the tag agreeing with any character
AgreesAtEveryPosition(tag, identity) ==
  /\ Len(tag) = Len(identity)
  /\ \A k \in 1..Len(identity) : tag[k] = "." \/ tag[k] = identity[k]

\* C1: when the PCI loop is over, a vmhba<N>/vmnic<N> row whose class is not
\* an always-native class is in the native set iff some device tag of the
\* profile agrees with the row's identity string at every position.
C1_TagAgreesAtEveryPosition ==
  pc = "getadapters" =>
    \A d \in Rows(pciDevList) :
       (IsHbaOrNic(d) /\ ~IsAlwaysNativeClass(d)) =>
          (d.name \in nativeDevices <=>
             \E tag \in pciDriverTags : AgreesAtEveryPosition(tag, HwId(d)))

\* C2: once the PCI loop is over, every vmhba<N>/vmnic<N> row of class 010601
\* or 010802 is in the native set and its bus address is in the index,
\* whatever the profile.
C2_NativeClassUnconditional ==
  PciStepOver =>
    \A d \in Rows(pciDevList) :
       (IsHbaOrNic(d) /\ IsAlwaysNativeClass(d)) =>
          /\ d.name \in nativeDevices
          /\ d.address \in DOMAIN nativeSbdfIndex

\* C2 witness: an NVMe device is native under a profile without any unit
C2_Witness ==
  /\ pc = "done"
  /\ targetImageProfile = {}
  /\ DevNvme \in Rows(pciDevList)
  /\ DevNvme.name \in nativeDevices
  /\ DevNvme.address \in DOMAIN nativeSbdfIndex

\* the second adapter loop is about to handle adapterList[j]
AtAdapterRow == pc = "adapterloop" /\ j <= Len(adapterList)

\* C3: a row of the second adapter loop that is not native yet, has no USB
\* uid and no software-adapter driver joins the native set in its step iff
\* its description gives a bus address and the index holds that address.
C3_InheritsIffIndexed ==
  [][ (/\ AtAdapterRow
       /\ adapterList[j].name \notin nativeDevices
       /\ ~UsbMatch(adapterList[j].uid)
       /\ adapterList[j].driver \notin {"iscsi_vmk", "qfle3f"})
      => (adapterList[j].name \in nativeDevices' <=>
            /\ SbdfOf(adapterList[j].description) # NoMatch
            /\ SbdfOf(adapterList[j].description) \in DOMAIN nativeSbdfIndex)
    ]_vars

\* C3 witness: the port adapter inherited from the AHCI controller at AddrA,
\* and an adapter whose description gives no address was left out
C3_Witness ==
  /\ pc = "done"
  /\ AdChild \in Rows(adapterList)
  /\ AdChild.name \in nativeDevices
  /\ AdOdd \in Rows(adapterList)
  /\ AdOdd.name \notin nativeDevices

\* C4: whenever the second adapter loop handles a row, the PCI loop has
\* handled every row, and the index holds the address of every always-native
\* vmhba<N>/vmnic<N> row of the PCI list.
C4_IndexCompleteBeforeLookup ==
  AtAdapterRow =>
    /\ i = Len(pciDevList) + 1
    /\ \A d \in Rows(pciDevList) :
          (IsHbaOrNic(d) /\ IsAlwaysNativeClass(d)) =>
             d.address \in DOMAIN nativeSbdfIndex

\* C4 witness: a lookup with two always-native devices in the PCI list
C4_Witness ==
  /\ AtAdapterRow
  /\ pciDevList = <<DevAhci, DevNvme>>
  /\ adapterList[j] = AdChild

\* C5: in the returned set are all adapters with a uid in the USB namespace
\* and all adapters whose driver is iscsi_vmk or qfle3f.
C5_UsbAndSoftwareAdaptersNative ==
  pc = "done" =>
    \A a \in Rows(adapterList) :
       (StartsWith(a.uid, <<"u", "s", "b", ".">>)
          \/ a.driver \in {"iscsi_vmk", "qfle3f"})
       => a.name \in nativeDevices

\* C5 witness: both kinds are native with no unit and no PCI list
C5_Witness ==
  /\ pc = "done"
  /\ targetImageProfile = {}
  /\ pciFailed
  /\ pciInventory # << >>
  /\ adapterList = <<AdUsb, AdIscsi>>
  /\ nativeDevices = {AdUsb.name, AdIscsi.name}

\* an adapter of a legacy bridging driver on top of a NIC: no USB uid, no
\* software-adapter driver, and its description names the address of a
\* vmnic<N> device whose class is not an always-native class
IsBridgedOnNic(adapter) ==
  /\ ~UsbMatch(adapter.uid)
  /\ adapter.driver \notin {"iscsi_vmk", "qfle3f"}
  /\ \E d \in Rows(pciInventory) :
        /\ SbdfOf(adapter.description) = d.address
        /\ StartsWith(d.name, vmnic)
        /\ IsHbaOrNic(d)
        /\ ~IsAlwaysNativeClass(d)

\* C6: an adapter bridged on a NIC is never in the native set.
C6_BridgedAdapterNeverNative ==
  \A a \in Rows(adapterInventory) :
     a.name \in nativeDevices => ~IsBridgedOnNic(a)

\* C6 witness: the NIC is native by a device tag, the FCoE adapter on it is
\* listed and has been handled, and is not native
C6_Witness ==
  /\ pc = "done"
  /\ DevNic.name \in nativeDevices
  /\ AdCna \in Rows(adapterList)
  /\ IsBridgedOnNic(AdCna)
  /\ AdCna.name \notin nativeDevices

\* C7: a failed retrieval leaves its list empty and the run goes on to its
\* end; the returned set has only names of rows that were retrieved, and is
\* empty when both retrievals failed, so that no device is native.
C7_FailedRetrievalIsEmptyInventory ==
  /\ pc \in {"tags", "getpci", "pciloop", "getadapters", "indexloop",
             "adapterloop", "done"}
  /\ (PciStepOver /\ pciFailed) => pciDevList = << >>
  /\ pc = "done" =>
       /\ adapterFailed => adapterList = << >>
       /\ nativeDevices \subseteq
            { d.name : d \in Rows(pciDevList) }
              \cup { a.name : a \in Rows(adapterList) }
       /\ (pciFailed /\ adapterFailed) =>
             \A d \in Rows(pciInventory) \cup Rows(adapterInventory) :
                ~isDeviceNativePostUpgrade(d.name)

\* C7 witness: both retrievals failed on a host with native devices
C7_Witness ==
  /\ pc = "done"
  /\ pciFailed
  /\ adapterFailed
  /\ DevAhci \in Rows(pciInventory)
  /\ AdUsb \in Rows(adapterInventory)
  /\ nativeDevices = {}

\* C8: the set returned for the profile is included in the set returned, for
\* the same two lists, for the profile with one more unit.
C8_MoreUnitsNeverShrink ==
  pc = "done" =>
    \/ nativeDevices = {}
    \/ \A vib \in VibUniverse \ targetImageProfile :
          nativeDevices \subseteq
            GetNativeDevices(targetImageProfile \cup {vib}, pciDevList,
                             adapterList)

\* C8 witness: the profile covers the RAID controller by its class tag, and
\* the unit with the wildcard NIC tag adds the NIC
C8_Witness ==
  /\ pc = "done"
  /\ nativeDevices = {DevRaid.name}
  /\ \E vib \in VibUniverse \ targetImageProfile :
        /\ TagNicWild \in TagsOfProfile({vib})
        /\ GetNativeDevices(targetImageProfile \cup {vib}, pciDevList,
                            adapterList) = {DevRaid.name, DevNic.name}

\* ------------------------------------------------------------------------
\* Properties of Result and of the precheck run
\* ------------------------------------------------------------------------

\* the three severities
Severities == {SUCCESS, WARNING, ERROR}

\* the check stores into rc only the code rc already has
StoreKeepsCode ==
  runPc = "constructed" /\ rc.found = << >> => rc.code = SUCCESS

\* C9: the code of a constructed Result is a function of the arguments of the
\* call: SUCCESS when the comparator holds of (found, expected), equality
\* when no comparator is passed, and otherwise the mismatch severity that
\* was passed, ERROR when none was.
C9_SeverityFromArguments ==
  rc # NoResult =>
    LET holds == CASE args.comparator = None -> args.found = args.expected
                   [] args.comparator = "operator.eq" ->
                        args.found = args.expected
                   [] args.comparator = "operator.ge" ->
                        ListGe(args.found, args.expected)
    IN /\ holds => rc.code = SUCCESS
       /\ ~holds /\ args.mismatchCode \in Severities =>
            rc.code = args.mismatchCode
       /\ ~holds /\ args.mismatchCode \notin Severities => rc.code = ERROR

\* a call without comparator and without mismatch severity whose lists differ
C9_Witness ==
  /\ rc # NoResult
  /\ args.comparator = None
  /\ args.mismatchCode = None
  /\ args.found # args.expected
  /\ rc.code = ERROR

\* C10: in every run of every entry point no attribute of a Result is
\* assigned once the Result is constructed.
C10_NoStoreAfterConstruction == assigned = {}

\* the name of the Result each check returns
ResultNameOf(test) ==
  CASE test = "checkUpgradePath" -> "UPGRADE_PATH"
    [] test = "checkMemorySize" -> "MEMORY_SIZE"
    [] test = "checkCpuSupported" -> "CPU_SUPPORT"
    [] test = "checkCpuCores" -> "CPU_CORES"
    [] test = "checkHardwareVirtualization" -> "HARDWARE_VIRTUALIZATION"
    [] test = "checkLAHFSAHF64bitFeatures" -> "64BIT_LONGMODESTATUS"
    [] test = "checkNXbitCpuFeature" -> "NXBIT_ENABLED"
    [] test = "checkHostHw" -> "VALIDATE_HOST_HW"
    [] test = "checkUnsupportedDevices" -> "UNSUPPORTED_DEVICES"
    [] test = "checkVMFSVersion" -> "VMFS_VERSION"
    [] test = "checkImageProfileSize" -> "IMAGEPROFILE_SIZE"
    [] test = "checkVibConflicts" -> "CONFLICTING_VIBS"
    [] test = "checkVibDependencies" -> "MISSING_DEPENDENCY_VIBS"
    [] test = "checkBootDiskSize" -> "BOOT_DISK_SIZE"
    [] test = "checkBootNicIsNative" -> "NATIVE_BOOT_NIC"
    [] test = "checkBootbankDeviceIsNative" -> "NATIVE_BOOTBANK"
    [] test = "checkLockerSpaceAvail" -> "LOCKER_SPACE_AVAIL"
    [] test = "checkHostAcceptance" -> "HOST_ACCEPTANCE"
    [] test = "checkAvailableSpaceForISO" -> "SPACE_AVAIL_ISO"
    [] test = "checkSaneEsxConf" -> "SANE_ESX_CONF"
    [] test = "checkPackageCompliance" -> "PACKAGE_COMPLIANCE"
    [] test = "checkUpdatesPending" -> "UPDATE_PENDING"

\* the Results of the list 'tests': main puts that of checkInitializable
\* before them
TestResults == IF entry.action = "main" THEN Tail(results) ELSE results

\* the position in list of the Result of this name
PositionOf(list, name) == CHOOSE k \in 1..Len(list) : list[k].name = name

\* names lists the Results of list with a code in codes, each once, in the
\* order of list
ListsInOrder(names, list, codes) ==
  /\ Len(names) = Cardinality({k \in 1..Len(list) : list[k].code \in codes})
  /\ \A k \in 1..Len(list) :
       list[k].code \in codes => \E a \in 1..Len(names) : names[a] = list[k].name
  /\ \A a \in 1..Len(names) :
       \E k \in 1..Len(list) : list[k].name = names[a] /\ list[k].code \in codes
  /\ \A a \in 1..Len(names) : \A b \in 1..Len(names) :
       a < b => PositionOf(list, names[a]) < PositionOf(list, names[b])

\* the run has gone through the whole list 'tests' and returned
RunReturned == runPc = "returned" /\ systemProbe # NoProbe

\* C18: the checks run once each in the order of the list; imageManagerAction
\* returns the ERROR Results as errors and the WARNING Results as warnings,
\* in that order, a SUCCESS Result in neither; humanReadableResultBlurbs
\* puts every ERROR Result into the error blurb and every other Result that
\* is not SUCCESS into the warning blurb, in that order, and both blurbs are
\* empty iff every Result is SUCCESS.
C18_RunsInOrderAndClassifies ==
  /\ systemProbe # NoProbe /\ runPc # "raised" =>
       /\ Len(TestResults) = next - 1
       /\ \A k \in 1..Len(TestResults) :
            TestResults[k].name = ResultNameOf(tests[k])
  /\ RunReturned => Len(TestResults) = Len(tests)
  /\ RunReturned /\ entry.action = "imageManagerAction" =>
       /\ ListsInOrder(output.errors, results, {ERROR})
       /\ ListsInOrder(output.warnings, results, {WARNING})
  /\ RunReturned /\ entry.action \in {"upgradeAction", "installAction",
                                       "cliUpgradeAction"} =>
       /\ ListsInOrder(output.errors, results, {ERROR})
       /\ ListsInOrder(output.warnings, results,
                       {r.code : r \in {results[k] : k \in 1..Len(results)}}
                         \ {ERROR, SUCCESS})
       /\ (output.errors = << >> /\ output.warnings = << >>)
            <=> \A k \in 1..Len(results) : results[k].code = SUCCESS

\* C18 witness: a run that returns blurbs for two ERROR Results and one
\* WARNING Result
C18_Witness ==
  /\ RunReturned
  /\ entry.action = "cliUpgradeAction"
  /\ Len(output.errors) = 2
  /\ Len(output.warnings) = 1
  /\ Len(results) = Len(tests)

\* C19: no exception raised by a check leaves the entry point: the run
\* records an ERROR Result for the check and goes on with the list.
C19_NoExceptionLeavesEntryPoint == runPc # "raised"

\* every Result of the run is SUCCESS
AllSuccess == \A k \in 1..Len(results) : results[k].code = SUCCESS

C24_ChecksLeaveProbeUnchanged ==
  [][systemProbe # NoProbe =>
       /\ systemProbe' = systemProbe
       /\ nativeDevices' = nativeDevices
       /\ systemProbe = InitProbe(entry, host)
       /\ nativeDevices = InitNativeDevices(entry, host)]_vars

\* C24 witness: three checks have run on a host with native devices, and
\* the probe is the one init() built
C24_Witness ==
  /\ runPc = "tests"
  /\ next > 3
  /\ nativeDevices # {}
  /\ systemProbe # NoProbe
  /\ systemProbe.bootDeviceName # None
  /\ systemProbe = InitProbe(entry, host)
  /\ nativeDevices = InitNativeDevices(entry, host)

\* the names of the Results an entry point has collected, in order
ResultNames == [k \in 1..Len(results) |-> results[k].name]

\* C25: cliUpgradeAction runs the six regular checks alone when it is given
\* no target profile, whatever vmkLinuxOnly is; the two native-driver
\* checks alone when it is given a profile and vmkLinuxOnly; and the six
\* followed by the two when it is given a profile and not vmkLinuxOnly. At
\* its return the Results are those of that list, in that order.
C25_CliUpgradeCheckList ==
  (entry.action = "cliUpgradeAction" /\ systemProbe # NoProbe) =>
    LET regular == <<"checkUpgradePath", "checkMemorySize",
                     "checkCpuSupported", "checkCpuCores",
                     "checkUnsupportedDevices", "checkBootDiskSize">>
        native == <<"checkBootNicIsNative", "checkBootbankDeviceIsNative">>
        regularNames == <<"UPGRADE_PATH", "MEMORY_SIZE", "CPU_SUPPORT",
                          "CPU_CORES", "UNSUPPORTED_DEVICES",
                          "BOOT_DISK_SIZE">>
        nativeNames == <<"NATIVE_BOOT_NIC", "NATIVE_BOOTBANK">>
        list == IF ~entry.targetImageProfile THEN regular
                ELSE IF entry.vmkLinuxOnly THEN native
                ELSE regular \o native
        names == IF ~entry.targetImageProfile THEN regularNames
                 ELSE IF entry.vmkLinuxOnly THEN nativeNames
                 ELSE regularNames \o nativeNames
    IN /\ tests = list
       /\ runPc = "returned" => ResultNames = names

\* C25 witness: cliUpgradeAction, called without a target profile and with
\* vmkLinuxOnly set, has returned after the six regular checks
C25_Witness ==
  /\ entry.action = "cliUpgradeAction"
  /\ ~entry.targetImageProfile
  /\ entry.vmkLinuxOnly
  /\ runPc = "returned"
  /\ Len(results) = 6
  /\ results[1].name = "UPGRADE_PATH"

\* C27: when the free space of the locker cannot be determined, the Result
\* named LOCKER_SPACE_AVAIL of the run is an ERROR, never a SUCCESS.
C27_UnreadableLockerIsError ==
  host.lockerFreeSpace = "raises" =>
    \A k \in 1..Len(results) :
      results[k].name = "LOCKER_SPACE_AVAIL" => results[k].code = ERROR

\* C28: in imageManagerAction the host-acceptance check compares the
\* acceptance level configured on the host with that of the target image
\* profile: its Result is an ERROR exactly when the level of the host cannot
\* be determined or ranks higher than the level of the target profile.
C28_HostAcceptanceAgainstTarget ==
  entry.action = "imageManagerAction" =>
    \A k \in 1..Len(results) :
      results[k].name = "HOST_ACCEPTANCE" =>
        (results[k].code = ERROR <=>
           \/ host.hostAcceptance = ""
           \/ TRUST_ORDER[host.hostAcceptance]
                > TRUST_ORDER[host.targetProfileAcceptance])

\* ------------------------------------------------------------------------
\* Properties of the functions called on their own
\* ------------------------------------------------------------------------

\* the subsystem argument is not set
Unset(a) == a.subsystem = NoSubsystem

\* vendor id and device id agree after lower-casing
SameIds(a, b) ==
  /\ Lower(a.vendorId) = Lower(b.vendorId)
  /\ Lower(a.deviceId) = Lower(b.deviceId)

\* C11: A == B holds iff vendor and device ids are equal after lower-casing
\* when a subsystem is unset on either side, and iff vendor id, device id and
\* subsystem are all equal after lower-casing when both are set.
C11_EqIgnoresUnsetSubsystem ==
  returned /\ call.fn = "PciInfo.__eq__" =>
    IF Unset(call.a) \/ Unset(call.b)
    THEN value = SameIds(call.a, call.b)
    ELSE value = (/\ SameIds(call.a, call.b)
                  /\ Lower(call.a.subsystem) = Lower(call.b.subsystem))

\* C11 witness: equal although one side has a subsystem and the other none,
\* with ids that differ in case
C11_Witness ==
  /\ returned
  /\ call.fn = "PciInfo.__eq__"
  /\ Unset(call.a)
  /\ call.b.subsystem = <<"1", ":", "A">>
  /\ call.a.vendorId # call.b.vendorId
  /\ value = TRUE

\* C12: A != B holds iff vendor id, device id or subsystem differs; where the
\* ids are equal and exactly one side has no subsystem, A == B and A != B
\* both hold.
C12_NeIsFieldByField ==
  returned /\ call.fn = "PciInfo.__ne__" =>
    LET A == PciInfo(call.a.vendorId, call.a.deviceId, call.a.subsystem)
        B == PciInfo(call.b.vendorId, call.b.deviceId, call.b.subsystem)
    IN /\ value = (\/ ~SameIds(call.a, call.b)
                    \/ A.subsystem # B.subsystem)
       /\ SameIds(call.a, call.b) /\ (Unset(call.a) # Unset(call.b)) =>
            value = TRUE /\ PciEq(A, B)

\* C12 witness: equal ids, one side without subsystem: != is true, == too
C12_Witness ==
  /\ returned
  /\ call.fn = "PciInfo.__ne__"
  /\ SameIds(call.a, call.b)
  /\ Unset(call.a)
  /\ ~Unset(call.b)
  /\ value = TRUE
  /\ PciEq(PciInfo(call.a.vendorId, call.a.deviceId, call.a.subsystem),
           PciInfo(call.b.vendorId, call.b.deviceId, call.b.subsystem))

\* the units of the host profile that a unit merged from the upgrade profile
\* replaces
ChangedBy(H, U) ==
  LET scan == ScanVibs(H, U)
  IN {u \in H : \E v \in scan.updates \cup scan.new : v.name = u.name}

\* C13: the target profile contains every unit of the upgrade profile that
\* the scan of the host profile classifies as new or updated, and every unit
\* of the host profile that no such unit replaces; a replaced unit is gone.
C13_TargetHoldsMergedUnits ==
  returned /\ call.fn = "_getTargetImageProfile" =>
    LET scan == ScanVibs(call.host, call.upgrade)
        changed == ChangedBy(call.host, call.upgrade)
    IN /\ (call.host \ changed) \cup (scan.updates \cup scan.new)
            \subseteq value
       /\ changed \cap value = {}

\* C13 witness: one unit of the host updated, one kept, one unit new
C13_Witness ==
  /\ returned
  /\ call.fn = "_getTargetImageProfile"
  /\ ScanVibs(call.host, call.upgrade).updates # {}
  /\ ScanVibs(call.host, call.upgrade).new # {}
  /\ call.host \ ChangedBy(call.host, call.upgrade) # {}
  /\ ChangedBy(call.host, call.upgrade) # {}

\* the payloads of a profile as the set of their positions (unit, payload)
PayloadsAt(profile) ==
  {p \in (1..Len(profile)) \X (1..MaxPayloads + 1) :
     p[2] <= Len(profile[p[1]].payloads)}

\* how often the profile holds a payload of this size and kind
CountOf(profile, size, boot) ==
  Cardinality({p \in PayloadsAt(profile) :
     /\ profile[p[1]].payloads[p[2]].size = size
     /\ (profile[p[1]].payloads[p[2]].payloadtype = TYPE_BOOT) = boot})

RECURSIVE SumOver(_, _, _)
SumOver(profile, sizes, factor) ==
  IF sizes = {} THEN 0
  ELSE LET s == CHOOSE x \in sizes : TRUE
       IN s * (factor * CountOf(profile, s, TRUE)
                 + CountOf(profile, s, FALSE))
            + SumOver(profile, sizes \ {s}, factor)

\* C14: the size of an image is the sum of its payloads' sizes, each boot
\* payload counted twice, plus 10485760 bytes; one unit with a boot payload
\* of size S and another payload of size T gives 2S + T + 10 MiB, and the
\* empty profile gives 10 MiB.
C14_SizeCountsBootTwice ==
  returned /\ call.fn = "_calcImageSize" =>
    /\ value = SumOver(call.imageProfile, PayloadSizes, 2) + 10485760
    /\ call.imageProfile = << >> => value = 10485760
    /\ \A S \in PayloadSizes : \A T \in PayloadSizes :
         call.imageProfile =
           << [payloads |-> << [size |-> S, payloadtype |-> TYPE_BOOT],
                               [size |-> T, payloadtype |-> "tgz"] >>] >>
         => value = 2 * S + T + 10485760

\* C14 witness: two units, a boot payload and another payload among them
C14_Witness ==
  /\ returned
  /\ call.fn = "_calcImageSize"
  /\ Len(call.imageProfile) = 2
  /\ CountOf(call.imageProfile, 2, TRUE) = 1
  /\ CountOf(call.imageProfile, 1, FALSE) = 2
  /\ value = 2 * 2 + 1 + 1 + 10485760

\* a version 'x.y.z' as one number
VersionNumber(v) == v[1] * 10000 + v[2] * 100 + v[3]

\* C15: the upgrade-path check gives SUCCESS iff the installed version is
\* known, the target version is not lower than it and it is not below 6.5,
\* and ERROR otherwise: 6.0.0 to 7.0.0 and 7.1.0 to 7.0.0 are rejected,
\* 6.7.0 to 7.0.0 is accepted.
C15_UpgradePathRule ==
  returned /\ call.fn = "checkUpgradePath" =>
    LET installed == call.host.installedVersion
        accepted  == /\ installed # << >>
                     /\ VersionNumber(PRODUCT_VERSION_NUMBER)
                          >= VersionNumber(installed)
                     /\ VersionNumber(installed) >= 60500
    IN /\ value.code = (IF accepted THEN SUCCESS ELSE ERROR)
       /\ installed \in { <<6, 0, 0>>, <<7, 1, 0>> } => value.code = ERROR
       /\ installed = <<6, 7, 0>> => value.code = SUCCESS

\* C15 witness: 6.5.0, the lowest version accepted, upgrades to 7.0.0
C15_Witness ==
  /\ returned
  /\ call.fn = "checkUpgradePath"
  /\ call.host.installedVersion = <<6, 5, 0>>
  /\ value.code = SUCCESS
  /\ value.found = <<7, 0, 0>>

\* C16: the memory check gives SUCCESS iff the memory found is at least the
\* 4096 MiB expected less 0.03125 of it, which is 3968 MiB, and ERROR
\* otherwise: 3970 MiB pass, 3900 MiB fail.
C16_MemoryAllowance ==
  returned /\ call.fn = "checkMemorySize" =>
    LET found == call.host.physicalMemory
    IN /\ value.expected = <<4096>>
       /\ 4096 - (4096 \div 32) = 3968
       /\ value.code = (IF found >= 3968 THEN SUCCESS ELSE ERROR)
       /\ found = 3970 => value.code = SUCCESS
       /\ found = 3900 => value.code = ERROR

\* C16 witness: 3968 MiB, less than expected and within the allowance, pass
C16_Witness ==
  /\ returned
  /\ call.fn = "checkMemorySize"
  /\ call.host.physicalMemory = 3968
  /\ value.found = <<3968>>
  /\ value.code = SUCCESS

\* C17: with a boot device and system storage enabled, the boot-disk-size
\* check gives SUCCESS iff the size found plus 1 is at least the size
\* expected, and ERROR when it is less.
C17_BootDiskOneMiBAllowance ==
  /\ returned
  /\ call.fn = "checkBootDiskSize"
  /\ call.host.bootDeviceName # None
  /\ call.host.systemStorage
  => /\ value.found = <<call.host.bootDiskMiB>>
     /\ value.code = (IF call.host.bootDiskMiB + 1
                            >= call.host.systemDiskSmallMB
                       THEN SUCCESS ELSE ERROR)

\* C17 witness: a boot disk one MiB smaller than expected passes
C17_Witness ==
  /\ returned
  /\ call.fn = "checkBootDiskSize"
  /\ call.host.bootDeviceName # None
  /\ call.host.systemStorage
  /\ call.host.bootDiskMiB + 1 = call.host.systemDiskSmallMB
  /\ value.code = SUCCESS

\* C20: a check whose fact is not available never returns SUCCESS: the
\* boot-disk-size check returns WARNING or ERROR when no boot device is
\* known.
C20_NoBootDeviceNeverSuccess ==
  /\ returned
  /\ call.fn = "checkBootDiskSize"
  /\ call.host.bootDeviceName = None
  => value.code \in {WARNING, ERROR}

\* C21: a CPU that is supported for the last time gives SUCCESS under VUM
\* and WARNING in the installer and under esxcli; a CPU that is not supported
\* gives SUCCESS in no environment; the result of every other check that can
\* warn is the same in every environment.
C21_SilencingOnlyCpuUnderVum ==
  returned /\ call.fn = "checkInEnvironment" =>
    LET h     == call.host
        class == CpuClass(h.cpu[1], h.cpu[2], h.cpu[3])
    IN IF call.test = "checkCpuSupported"
       THEN /\ class = WARNING =>
                 value.code = (IF EnvironmentOf(call.entry) = "vum"
                               THEN SUCCESS ELSE WARNING)
            /\ class = ERROR => value.code # SUCCESS
            /\ class = SUCCESS => value.code = SUCCESS
       ELSE /\ \A e \in Entries :
                 CheckResult(call.test, h, InitProbe(e, h), {}).code
                   = value.code
            /\ call.test = "checkVMFSVersion" =>
                 value.code = (IF h.vmfs3 THEN WARNING ELSE SUCCESS)
            /\ call.test = "checkUnsupportedDevices" =>
                 value.code = (IF h.unsupportedDevices # << >>
                               THEN WARNING ELSE SUCCESS)
            /\ call.test = "checkHardwareVirtualization" =>
                 value.code = (IF h.hvSupport # 3 THEN WARNING ELSE SUCCESS)

\* C21 witness: a CPU that is supported for the last time passes under VUM
\* on a host with VMFS-3 volumes
C21_Witness ==
  /\ returned
  /\ call.fn = "checkInEnvironment"
  /\ call.test = "checkCpuSupported"
  /\ EnvironmentOf(call.entry) = "vum"
  /\ call.host.cpu = <<"AuthenticAMD", 21, 1>>
  /\ call.host.vmfs3
  /\ value.code = SUCCESS

\* the call has reached the command that provisions the ramdisk: no staging
\* area was there, or the one there has been released
ReachesAdd ==
  ~call.area.dir \/ call.area.ramdisks = 0 \/ call.removeOk

\* C22: when the command that provisions the ramdisk fails, allocateRamDisk
\* returns False, raises nothing and leaves no directory and no ramdisk; a
\* staging area found at the path is released before the new one is
\* provisioned, so that at most one ramdisk is ever mounted at the path.
C22_RamDiskReleasedOnFailure ==
  returned /\ call.fn = "allocateRamDisk" =>
    /\ ReachesAdd /\ ~call.addOk =>
         /\ value.returns = "False"
         /\ ~value.area.dir
         /\ value.area.ramdisks = 0
    /\ ReachesAdd /\ call.addOk =>
         /\ value.returns = "True"
         /\ value.area = [dir |-> TRUE, ramdisks |-> 1]
    /\ value.area.ramdisks <= 1

\* C22 witness: a staging area is found, released and the command for the
\* new one fails
C22_Witness ==
  /\ returned
  /\ call.fn = "allocateRamDisk"
  /\ call.area = [dir |-> TRUE, ramdisks |-> 1]
  /\ call.removeOk
  /\ ~call.addOk
  /\ value.returns = "False"
  /\ ~value.area.dir

\* C26: checkBootbankDeviceIsNative returns SUCCESS exactly when the target
\* image is not native-only, or the host boots over PXE, or the storage
\* adapter of the boot disk is in the set of native devices; otherwise it
\* returns ERROR. With a native-only target on a host that does not boot
\* over PXE it returns ERROR whenever the native set is empty or the adapter
\* cannot be determined.
C26_BootbankNativeRule ==
  (returned /\ call.fn = "checkBootbankDeviceIsNative") =>
    LET h == call.host
        passes == \/ ~h.nativeTargetImage
                  \/ h.pxeBooting
                  \/ \E d \in call.native : d = h.diskAdapter
    IN /\ value.name = "NATIVE_BOOTBANK"
       /\ value.code \in {SUCCESS, ERROR}
       /\ value.code = SUCCESS <=> passes
       /\ (h.nativeTargetImage /\ ~h.pxeBooting
             /\ (call.native = {} \/ h.diskAdapter = NoAdapter))
            => value.code = ERROR

\* C26 witness: a native-only target on a host that boots from a disk whose
\* adapter cannot be determined, with native devices known: ERROR
C26_Witness ==
  /\ returned
  /\ call.fn = "checkBootbankDeviceIsNative"
  /\ call.host.nativeTargetImage
  /\ ~call.host.pxeBooting
  /\ call.host.diskAdapter = NoAdapter
  /\ call.native # {}
  /\ value.code = ERROR

\* an entry as written in the list denies a device of the host
Denies(pci, dev) ==
  /\ Lower(pci.vendorId) = Fmt04x(dev.vendor)
  /\ Lower(pci.deviceId) = Fmt04x(dev.device)
  /\ \/ pci.subsystem = NoSubsystem
     \/ Lower(pci.subsystem)
          = Fmt04x(dev.subven) \o <<":">> \o Fmt04x(dev.subdev)

\* C29: checkUnsupportedDevices reports a device of the host exactly when
\* the list has an entry with the vendor id and the device id of the device
\* whose subsystem is not recorded or is the subsystem of the device, letter
\* case aside; the devices reported are in the order of the host's list, and
\* the Result is a WARNING when one is reported and a SUCCESS when none is.
C29_UnsupportedDevicesRule ==
  (returned /\ call.fn = "checkUnsupportedDevices") =>
    LET Denied(dev) ==
          \E k \in 1..Len(call.denied) : Denies(call.denied[k], dev)
        reported == SelectSeq(call.devices, Denied)
    IN /\ value.found = parsePciInfo(reported)
       /\ value.code = IF reported = << >> THEN SUCCESS ELSE WARNING

\* C29 witness: of two devices with the same ids the list denies the one
\* whose subsystem it records, written in upper case, and not the other
C29_Witness ==
  /\ returned
  /\ call.fn = "checkUnsupportedDevices"
  /\ Len(call.devices) = 2
  /\ Len(call.denied) = 1
  /\ call.denied[1].subsystem
       = <<"0", "E", "1", "1", ":", "4", "0", "7", "0">>
  /\ call.devices[1].subdev = 16529
  /\ call.devices[2] = [vendor |-> 3601, device |-> 45152, subven |-> 3601,
                        subdev |-> 16496]
  /\ Len(value.found) = 1
  /\ value.code = WARNING

\* C30: under VUM checkCpuSupported never returns a WARNING: whatever the
\* vendor, family and model of the CPU and whatever the boot command line,
\* allowLegacyCPU included, its Result is a SUCCESS or an ERROR.
C30_NoCpuWarningUnderVum ==
  /\ returned
  /\ call.fn = "checkInEnvironment"
  /\ call.test = "checkCpuSupported"
  /\ EnvironmentOf(call.entry) = "vum"
  => value.code \in {SUCCESS, ERROR}

====
